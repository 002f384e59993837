-------------------------- MODULE DailyLimitProofs --------------------------
(***************************************************************************)
(* The daily limit of JobPipeline with one drainer and no requeue: for any *)
(* number of campaigns, days, readers of the cache and failures, the Redis *)
(* counters stand for the campaigns charged to them.                       *)
(***************************************************************************)
EXTENDS JobProofs

-----------------------------------------------------------------------------
(***************************************************************************)
(* Requests and rows.                                                      *)
(***************************************************************************)

(* A campaign is charged to its day from the increment on, until it is     *)
(* rejected or fails without a row.                                        *)
Charged(c) == \/ request[c].pc \in {"over", "counted"}
              \/ campaigns[c].status # "none"

Took(day) == {c \in Campaigns : request[c].day = day /\ Charged(c)}

Admitted(day) == {c \in Took(day) : request[c].pc # "over"}

Begun == {c \in Campaigns : request[c].pc # "new"}

(* The row comes after the check of the limit, on a day that has begun.    *)
RowAfterCheck(c) ==
    /\ request[c].pc \in {"new", "over", "counted", "rejected"}
           => campaigns[c].status = "none"
    /\ request[c].pc \in {"inserted", "batched", "accepted"}
           => campaigns[c].status # "none"
    /\ faults = 0 => request[c].pc # "failed"
    /\ request[c].day <= today
    /\ campaigns[c].status = "completed"
           => campaigns[c].completed >= Cardinality(JobsOf(c))

RequestsInOrder == IsFiniteSet(Begun) /\ \A c \in Campaigns : RowAfterCheck(c)

-----------------------------------------------------------------------------
(***************************************************************************)
(* Copies of campaigns that were never requeued.                           *)
(***************************************************************************)
EmptyDone(c) == campaigns[c].status = "completed" /\ campaigns[c].leads = 0

(* The copies of a campaign that may still be shown or stored.             *)
Copies(c) ==
    ({cache[c]} \ {None})
    \cup {viewer[v].copy : v \in {u \in Viewers : /\ viewer[u].campaign = c
                                                  /\ viewer[u].campaign # None}}
    \cup {drainer[d].copy : d \in {e \in Drainers : /\ drainer[e].pc = "fill"
                                                    /\ MessageCampaign(e) = c}}

Refunding(c) == \E d \in Drainers : drainer[d].pc = "refund" /\ MessageCampaign(d) = c

(* A copy that says completed says so for good, and so does a drainer that *)
(* is about to refund a campaign.                                          *)
CopiesTrue ==
    \A c \in Campaigns : NeverRequeued(c) =>
        /\ \A copy \in Copies(c) : copy.status = "completed" =>
              campaigns[c].status = "completed" /\ campaigns[c].leads = copy.leads
        /\ Refunding(c) => EmptyDone(c)

(* Without readers the only copies are those of the drainer, and current.  *)
CopiesCurrent ==
    Viewers = {} => \A c \in Campaigns : \A copy \in Copies(c) :
                        copy = campaigns[c] /\ copy.status # "none"

-----------------------------------------------------------------------------
(***************************************************************************)
(* Refunds.  r says on which day a campaign was refunded, 0 if it was not. *)
(***************************************************************************)
AfterCount == {"mark", "fetch", "fill", "refund"}

(* A drainer has counted a message of the campaign and may refund it.      *)
Closing(c) == \E d \in Drainers : drainer[d].pc \in AfterCount /\ MessageCampaign(d) = c

Refunded(r) == {c \in Campaigns : r[c] # 0}
RefundedOn(r, day) == {c \in Campaigns : r[c] = day}

(* Only ended campaigns without leads are refunded, once, not before their *)
(* day, and each counter covers what was taken from it less the refunds.   *)
Covered(r) ==
    /\ \A c \in Refunded(r) : /\ EmptyDone(c) /\ ~Closing(c)
                              /\ request[c].day <= r[c]
    /\ \A day \in 1..MaxDay :
          /\ Cardinality(Took(day)) <= limit[day] + Cardinality(RefundedOn(r, day))
          /\ Cardinality(Admitted(day))
                 <= DailyLimit + Cardinality(RefundedOn(r, day))

(* As long as nothing fails, the counters are exact, and only a stale copy *)
(* can hide the end of a campaign from its drainer.                        *)
TookAny == {c \in Campaigns : Charged(c)}

Exact(r) ==
    faults = 0 =>
        /\ Net(limit) = Cardinality(TookAny) - Cardinality(Refunded(r))
        /\ Viewers = {} => \A c \in Campaigns :
                              EmptyDone(c) => c \in Refunded(r) \/ Closing(c)

NoRetries == \A c \in Campaigns : NeverRequeued(c)

RefundsCovered ==
    NoRetries => \E r \in [Campaigns -> 0..MaxDay] : Covered(r) /\ Exact(r)

-----------------------------------------------------------------------------
(***************************************************************************)
(* Which steps touch what.                                                 *)
(***************************************************************************)

(* The worker loops and the watchdogs leave campaigns, requests, Redis keys*)
(* and drainers alone.                                                     *)
LEMMA QuietPrograms ==
    RunnerNext \/ WatchdogNext \/ UNCHANGED vars
        => UNCHANGED <<campaigns, cache, limit, today, request, drainer, viewer>>
  BY DEF RunnerNext, RunnerStep, Pop, RejectUnknown, Start, PushBatch, JobTimeout,
         Finish, ScrapeFails, StartFails, WorkersStop, runnerUnchanged, tables, keys,
         WatchdogNext, WatchdogStep, GetStalledJobs, Kill, MarkDead,
         RequeueJob, Enqueue, WatchdogCallFails, WatchdogStops, watchUnchanged, vars

(* A request moves by the steps of its handler.                            *)
RequestMoves(c) == CreateStep(c) \/ InsertJobsFails(c) \/ CreateStops(c)

LEMMA RequestsMove ==
    ASSUME [Next]_vars
    PROVE  UNCHANGED request \/ \E c \in Campaigns : RequestMoves(c)
<1>1. LeadRecoveryNext => UNCHANGED request
  BY DEF LeadRecoveryNext, DrainStep, Dequeue, UpdateStatus, UpdateFails, Count,
         CountFails, MarkCompletedIfDone, FetchHit, FetchMiss, Fill, Refund,
         DrainStops, drainUnchanged
<1>2. CampaignServiceNext => UNCHANGED request \/ \E c \in Campaigns : RequestMoves(c)
  BY DEF CampaignServiceNext, RequestMoves, CacheExpires, ViewerLoads, ViewerFills,
         NextDay
<1> QED
  BY <1>1, <1>2, QuietPrograms DEF Next

(* The rows of campaigns are inserted, counted up and marked completed.    *)
LEMMA RowsMove ==
    ASSUME [Next]_vars
    PROVE  \/ UNCHANGED campaigns
           \/ \E c \in Campaigns : InsertCampaign(c)
           \/ \E d \in Drainers : Count(d) \/ MarkCompletedIfDone(d)
<1>1. LeadRecoveryNext => \/ UNCHANGED campaigns
                          \/ \E d \in Drainers : Count(d) \/ MarkCompletedIfDone(d)
  BY DEF LeadRecoveryNext, DrainStep, Dequeue, UpdateStatus, UpdateFails,
         CountFails, FetchHit, FetchMiss, Fill, Refund, DrainStops, tables
<1>2. CampaignServiceNext => UNCHANGED campaigns \/ \E c \in Campaigns : InsertCampaign(c)
  BY DEF CampaignServiceNext, CreateStep, CheckLimit, RollBack, InsertJobs, EnqueueJobs,
         InsertJobsFails, CreateStops, CacheExpires, ViewerLoads, ViewerFills, NextDay,
         tables
<1> QED
  BY <1>1, <1>2, QuietPrograms DEF Next

(* A busy drainer works on a campaign whose jobs were queued.              *)
LEMMA DrainedAreAccepted ==
    ASSUME TypeOK, NothingBeforeAccepted, NEW d \in Drainers, drainer[d].pc # "idle"
    PROVE  /\ MessageCampaign(d) \in Campaigns
           /\ request[MessageCampaign(d)].pc = "accepted"
<1>1. Message(d).job \in Jobs
  BY DEF TypeOK, DrainersOK, Message, StatusMessages
<1>2. ~NotQueued(Message(d).job)
  BY <1>1 DEF NotQueued, Message
<1> QED
  BY <1>1, <1>2, JobsAssumption DEF NothingBeforeAccepted, Submitted, MessageCampaign

-----------------------------------------------------------------------------
(***************************************************************************)
(* Requests in order.                                                      *)
(***************************************************************************)

(* The steps of one handler keep the order.                                *)
LEMMA HandlersKeepOrder ==
    ASSUME TypeOK, TypeOK', NEW b \in Campaigns, RequestMoves(b),
           NEW c \in Campaigns, RowAfterCheck(c)
    PROVE  RowAfterCheck(c)'
<1>1. /\ request \in [Campaigns -> [pc : RequestPCs, day : 1..MaxDay]]
      /\ campaigns \in [Campaigns -> CampaignRows]
      /\ today \in 1..MaxDay /\ faults \in Nat
  BY BoundsAssumption, SMTT(30) DEF TypeOK, RequestsOK, CampaignsOK, KeysOK
<1>2. UNCHANGED today
  BY DEF RequestMoves, CreateStep, CheckLimit, RollBack, InsertCampaign, InsertJobs,
         EnqueueJobs, InsertJobsFails, CreateStops, serviceUnchanged
<1>3. CASE CheckLimit(b)
  BY <1>1, <1>2, <1>3 DEF CheckLimit, RowAfterCheck, tables, RequestPCs
<1>4. CASE RollBack(b)
  BY <1>1, <1>2, <1>4 DEF RollBack, RequestStep, RowAfterCheck, tables, RequestPCs
<1>5. CASE InsertCampaign(b)
  BY <1>1, <1>2, <1>5 DEF InsertCampaign, RequestStep, RowAfterCheck, RequestPCs, CampaignRows
<1>6. CASE InsertJobs(b)
  BY <1>1, <1>2, <1>6 DEF InsertJobs, RequestStep, RowAfterCheck, RequestPCs
<1>7. CASE EnqueueJobs(b)
  BY <1>1, <1>2, <1>7 DEF EnqueueJobs, RequestStep, RowAfterCheck, RequestPCs, tables
<1>8. CASE InsertJobsFails(b)
  BY <1>1, <1>2, <1>8 DEF InsertJobsFails, RequestStep, RowAfterCheck, RequestPCs, Fault
<1>9. CASE CreateStops(b)
  BY <1>1, <1>2, <1>9 DEF CreateStops, RowAfterCheck, RequestPCs, tables, Fault
<1> QED
  BY <1>3, <1>4, <1>5, <1>6, <1>7, <1>8, <1>9 DEF RequestMoves, CreateStep

(* The drainers count up, and mark completed what is counted.              *)
LEMMA DrainersKeepOrder ==
    ASSUME TypeOK, TypeOK', NEW d \in Drainers, Count(d) \/ MarkCompletedIfDone(d),
           NEW c \in Campaigns, RowAfterCheck(c)
    PROVE  RowAfterCheck(c)'
<1>1. /\ campaigns \in [Campaigns -> CampaignRows]
      /\ UNCHANGED <<request, today, faults>>
      /\ Cardinality(JobsOf(c)) \in Nat
  BY PayloadsFinite, FS_CardinalityType
     DEF TypeOK, CampaignsOK, Count, MarkCompletedIfDone, drainUnchanged
<1>2. CASE Count(d)
  <2>1. /\ campaigns'[c].status = campaigns[c].status
        /\ campaigns'[c].completed \in {campaigns[c].completed, campaigns[c].completed + 1}
        /\ campaigns[c].completed \in Nat
    BY <1>1, <1>2 DEF Count, CampaignRows
  <2> QED
    BY <1>1, <2>1 DEF RowAfterCheck
<1>3. CASE MarkCompletedIfDone(d)
  <2>1. campaigns'[c].completed = campaigns[c].completed
    BY <1>1, <1>3 DEF MarkCompletedIfDone, CampaignRows
  <2>2. \/ campaigns'[c].status = campaigns[c].status
        \/ /\ campaigns[c].status = "active" /\ campaigns'[c].status = "completed"
           /\ AllCounted(c)
    BY <1>1, <1>3 DEF MarkCompletedIfDone, CampaignRows
  <2> QED
    BY <1>1, <2>1, <2>2 DEF RowAfterCheck, AllCounted
<1> QED
  BY <1>2, <1>3

(* Rows are inserted after the check, on a day that has begun; a completed *)
(* campaign has its jobs counted.                                          *)
LEMMA OrderHolds == Spec => []RequestsInOrder
<1>1. Init => RequestsInOrder
  <2> SUFFICES ASSUME Init PROVE RequestsInOrder
    OBVIOUS
  <2>1. Begun = {}
    BY DEF Init, Begun
  <2>2. \A c \in Campaigns : RowAfterCheck(c)
    BY DEF Init, RowAfterCheck
  <2> QED
    BY <2>1, <2>2, FS_EmptySet DEF RequestsInOrder
<1>2. ASSUME TypeOK, TypeOK', RequestsInOrder, [Next]_vars
      PROVE  RequestsInOrder'
  <2>1. IsFiniteSet(Begun')
    <3>1. CASE UNCHANGED request
      <4>1. Begun' = Begun
        BY <3>1 DEF Begun
      <4> QED
        BY <1>2, <4>1 DEF RequestsInOrder
    <3>2. ASSUME NEW b \in Campaigns, RequestMoves(b)
          PROVE  IsFiniteSet(Begun')
      <4>1. \A c \in Campaigns \ {b} : request'[c] = request[c]
        BY <1>2, <3>2
           DEF TypeOK, RequestsOK, RequestMoves, CreateStep, CheckLimit, RollBack,
               InsertCampaign, InsertJobs, EnqueueJobs, InsertJobsFails, CreateStops,
               RequestStep
      <4>2. Begun' \subseteq Begun \cup {b}
        BY <4>1 DEF Begun
      <4>3. IsFiniteSet(Begun \cup {b})
        BY <1>2, FS_AddElement DEF RequestsInOrder
      <4> QED
        BY <4>2, <4>3, FS_Subset
    <3> QED
      BY <1>2, <3>1, <3>2, RequestsMove
  <2>2. ASSUME NEW c \in Campaigns
        PROVE  RowAfterCheck(c)'
    <3>1. RowAfterCheck(c)
      BY <1>2 DEF RequestsInOrder
    <3>2. CASE \E b \in Campaigns : RequestMoves(b)
      BY <1>2, <3>1, <3>2, HandlersKeepOrder
    <3>3. CASE \E d \in Drainers : Count(d) \/ MarkCompletedIfDone(d)
      BY <1>2, <3>1, <3>3, DrainersKeepOrder
    <3>4. CASE UNCHANGED <<request, campaigns>>
      <4>1. today' \in {today, today + 1} /\ today \in Nat /\ request[c].day \in Nat
        <5>1. today \in Nat /\ request[c].day \in Nat
          BY <1>2 DEF TypeOK, KeysOK, RequestsOK
        <5>2. LeadRecoveryNext => UNCHANGED today
          BY DEF LeadRecoveryNext, DrainStep, Dequeue, UpdateStatus, UpdateFails, Count,
                 CountFails, MarkCompletedIfDone, FetchHit, FetchMiss, Fill, Refund,
                 DrainStops, drainUnchanged
        <5>3. CampaignServiceNext => today' \in {today, today + 1}
          BY DEF CampaignServiceNext, CreateStep, CheckLimit, RollBack, InsertCampaign,
                 InsertJobs, EnqueueJobs, InsertJobsFails, CreateStops, CacheExpires,
                 ViewerLoads, ViewerFills, NextDay, serviceUnchanged
        <5> QED
          BY <1>2, <5>1, <5>2, <5>3, QuietPrograms DEF Next
      <4>2. faults' = 0 => faults = 0
        BY <1>2, FaultsStay
      <4> QED
        BY <3>1, <3>4, <4>1, <4>2 DEF RowAfterCheck
    <3>5. InsertCampaign(c) => RequestMoves(c)
      BY DEF RequestMoves, CreateStep
    <3> QED
      BY <1>2, <3>2, <3>3, <3>4, RequestsMove, RowsMove DEF RequestMoves, CreateStep
  <2> QED
    BY <2>1, <2>2 DEF RequestsInOrder
<1> QED
  BY <1>1, <1>2, TypeCorrect, PTL DEF Spec

-----------------------------------------------------------------------------
(***************************************************************************)
(* Copies.                                                                 *)
(***************************************************************************)

(* A campaign that was completed without a requeue has no message left     *)
(* that a drainer could still count.                                       *)
LEMMA NothingToCount ==
    ASSUME TypeOK, RunsAccounted, OnlyCountedCount, RequestsInOrder,
           NEW c \in Campaigns, NeverRequeued(c), campaigns[c].status = "completed",
           NEW d \in Drainers, drainer[d].pc = "count"
    PROVE  MessageCampaign(d) # c
<1> SUFFICES ASSUME MessageCampaign(d) = c
             PROVE  FALSE
  OBVIOUS
<1>1. Retries(c) = 0
  <2> DEFINE f == [j \in JobsOf(c) |-> jobs[j].attempt]
  <2>1. f \in [JobsOf(c) -> Nat] /\ \A j \in JobsOf(c) : f[j] = 0
    BY DEF NeverRequeued
  <2> HIDE DEF f
  <2>2. Total(f) = 0
    BY <2>1, TotalZero
  <2> QED
    BY <2>2 DEF Retries, f
<1>2. d \in Counting(c)
  BY DEF OnlyCountedCount, Counting, CountedMessage, MessageCampaign, Message
<1>3. Cardinality(Counting(c)) # 0
  <2> DEFINE K == Counting(c)
  <2>1. IsFiniteSet(K) /\ K # {}
    BY <1>2, PartsFinite
  <2> HIDE DEF K
  <2>2. Cardinality(K) # 0
    BY <2>1, FS_EmptySet
  <2> QED
    BY <2>2 DEF K
<1>4. /\ Waiting(c) \in Nat /\ Cardinality(Requeueing(c)) \in Nat
      /\ Cardinality(Running(c)) \in Nat /\ Cardinality(Reported(c)) \in Nat
      /\ Cardinality(Counting(c)) \in Nat /\ campaigns[c].completed \in Nat
  BY CountsAreTyped DEF CountsTyped
<1>5. campaigns[c].completed >= Cardinality(JobsOf(c))
  BY DEF RequestsInOrder, RowAfterCheck
<1>6. campaigns[c].completed + OpenRuns(c) <= Cardinality(JobsOf(c)) + Retries(c)
  BY DEF RunsAccounted
<1>7. Cardinality(JobsOf(c)) \in Nat
  BY PayloadsFinite, FS_CardinalityType
<1>8. OpenRuns(c) \in Nat /\ OpenRuns(c) > 0
  <2>1. Waiting(c) + Cardinality(Requeueing(c)) + Cardinality(Running(c))
            + Cardinality(Reported(c)) \in Nat
    BY <1>4
  <2>2. Cardinality(Counting(c)) > 0
    BY <1>3, <1>4
  <2> QED
    BY <1>4, <2>1, <2>2 DEF OpenRuns
<1> QED
  BY <1>1, <1>4, <1>5, <1>6, <1>7, <1>8

(* So its row does not change any more.                                    *)
LEMMA DoneStays ==
    ASSUME TypeOK, RunsAccounted, OnlyCountedCount, RequestsInOrder, [Next]_vars,
           NEW c \in Campaigns, NeverRequeued(c), campaigns[c].status = "completed"
    PROVE  campaigns'[c].status = "completed" /\ campaigns'[c].leads = campaigns[c].leads
<1>1. campaigns \in [Campaigns -> CampaignRows]
  BY DEF TypeOK, CampaignsOK
<1>2. ASSUME NEW b \in Campaigns, InsertCampaign(b)
      PROVE  campaigns'[c] = campaigns[c]
  <2>1. b # c
    BY <1>2 DEF InsertCampaign, RequestStep, RequestsInOrder, RowAfterCheck
  <2> QED
    BY <1>1, <1>2, <2>1 DEF InsertCampaign
<1>3. ASSUME NEW d \in Drainers, Count(d)
      PROVE  campaigns'[c] = campaigns[c]
  <2>1. MessageCampaign(d) # c
    BY <1>3, NothingToCount DEF Count
  <2> QED
    BY <1>1, <1>3, <2>1 DEF Count
<1>4. ASSUME NEW d \in Drainers, MarkCompletedIfDone(d)
      PROVE  campaigns'[c].status = "completed" /\ campaigns'[c].leads = campaigns[c].leads
  BY <1>1, <1>4 DEF MarkCompletedIfDone, CampaignRows
<1> QED
  BY <1>2, <1>3, <1>4, RowsMove

(* A copy is made of the row as it is, or handed on; and it takes a copy   *)
(* that says completed without a lead to refund.                           *)
CopiesMove(c) ==
    /\ Copies(c)' \subseteq Copies(c) \cup {campaigns[c]}
    /\ \/ Copies(c)' \subseteq Copies(c)
       \/ UNCHANGED campaigns /\ campaigns[c].status # "none"
    /\ Refunding(c)' => \/ Refunding(c)
                        \/ \E copy \in Copies(c) : /\ copy.status = "completed"
                                                   /\ copy.leads = 0

LEMMA ServiceMovesCopies ==
    ASSUME TypeOK, CampaignServiceNext, NEW c \in Campaigns
    PROVE  CopiesMove(c)
<1>1. UNCHANGED drainer /\ cache \in [Campaigns -> CampaignRows \cup {None}]
  BY DEF TypeOK, KeysOK, CampaignServiceNext, CreateStep, CheckLimit, RollBack,
         InsertCampaign, InsertJobs, EnqueueJobs, InsertJobsFails, CreateStops,
         CacheExpires, ViewerLoads, ViewerFills, NextDay, serviceUnchanged
<1>2. Refunding(c)' = Refunding(c)
  BY <1>1 DEF Refunding, MessageCampaign, Message
<1>3. CASE UNCHANGED <<cache, viewer>>
  <2>1. Copies(c)' = Copies(c)
    BY <1>1, <1>3 DEF Copies, MessageCampaign, Message
  <2> QED
    BY <1>2, <2>1 DEF CopiesMove
<1>4. ASSUME NEW b \in Campaigns, CacheExpires(b)
      PROVE  CopiesMove(c)
  <2>1. UNCHANGED viewer /\ cache'[c] \in {cache[c], None}
    BY <1>1, <1>4 DEF CacheExpires
  <2>2. Copies(c)' \subseteq Copies(c)
    BY <1>1, <2>1 DEF Copies, MessageCampaign, Message
  <2> QED
    BY <1>2, <2>2 DEF CopiesMove
<1>5. viewer \in [Viewers -> [campaign : Campaigns \cup {None},
                              copy : CampaignRows \cup {None}]]
  BY DEF TypeOK, ViewersOK
<1>6. ASSUME NEW v \in Viewers, NEW b \in Campaigns, ViewerLoads(v, b)
      PROVE  CopiesMove(c)
  <2>1. UNCHANGED <<cache, campaigns>>
    BY <1>6 DEF ViewerLoads, tables, keys
  <2>2. ASSUME NEW u \in Viewers, viewer'[u].campaign = c, viewer'[u].campaign # None
        PROVE  \/ /\ viewer[u].campaign = c /\ viewer[u].campaign # None
                  /\ viewer'[u].copy = viewer[u].copy
               \/ viewer'[u].copy = campaigns[c]
    BY <1>5, <1>6, <2>2 DEF ViewerLoads
  <2>3. Copies(c)' \subseteq Copies(c) \cup {campaigns[c]}
    BY <1>1, <2>1, <2>2 DEF Copies, MessageCampaign, Message
  <2>4. CASE b = c
    BY <1>2, <1>6, <2>1, <2>3, <2>4 DEF CopiesMove, ViewerLoads
  <2>5. CASE b # c
    <3>1. \A u \in Viewers : viewer'[u].campaign = c => viewer'[u] = viewer[u]
      BY <1>5, <1>6, <2>5 DEF ViewerLoads
    <3>2. Copies(c)' \subseteq Copies(c)
      BY <1>1, <2>1, <3>1 DEF Copies, MessageCampaign, Message
    <3> QED
      BY <1>2, <3>2 DEF CopiesMove
  <2> QED
    BY <2>4, <2>5
<1>7. ASSUME NEW v \in Viewers, ViewerFills(v)
      PROVE  CopiesMove(c)
  <2>1. \A u \in Viewers : viewer'[u] \in {viewer[u], IdleViewer}
    BY <1>5, <1>7 DEF ViewerFills
  <2>2. cache'[c] = cache[c] \/ (cache'[c] = viewer[v].copy /\ viewer[v].campaign = c
                                 /\ viewer[v].campaign # None)
    BY <1>1, <1>7 DEF ViewerFills
  <2>3. Copies(c)' \subseteq Copies(c)
    BY <1>1, <2>1, <2>2 DEF Copies, MessageCampaign, Message, IdleViewer
  <2> QED
    BY <1>2, <2>3 DEF CopiesMove
<1> QED
  BY <1>3, <1>4, <1>6, <1>7
     DEF CampaignServiceNext, CreateStep, CheckLimit, RollBack, InsertCampaign,
         InsertJobs, EnqueueJobs, InsertJobsFails, CreateStops, NextDay, keys

LEMMA RecoveryMovesCopies ==
    ASSUME TypeOK, NothingBeforeAccepted, RequestsInOrder, LeadRecoveryNext,
           NEW c \in Campaigns
    PROVE  CopiesMove(c)
<1>1. /\ UNCHANGED viewer /\ cache \in [Campaigns -> CampaignRows \cup {None}]
      /\ drainer \in [Drainers -> DrainerStates]
  BY DEF TypeOK, KeysOK, DrainersOK, LeadRecoveryNext, DrainStep, Dequeue, UpdateStatus,
         UpdateFails, Count, CountFails, MarkCompletedIfDone, FetchHit, FetchMiss, Fill,
         Refund, DrainStops, drainUnchanged
(* A drainer that neither fills nor refunds afterwards adds nothing.       *)
<1>2. ASSUME NEW d \in Drainers, drainer'[d].pc \notin {"fill", "refund"},
             \A e \in Drainers \ {d} : drainer'[e] = drainer[e],
             cache'[c] \in {cache[c], None} \/ cache'[c] \in Copies(c)
      PROVE  CopiesMove(c)
  <2>1. Copies(c)' \subseteq Copies(c)
    BY <1>1, <1>2 DEF Copies, MessageCampaign, Message
  <2>2. Refunding(c)' => Refunding(c)
    BY <1>2 DEF Refunding, MessageCampaign, Message
  <2> QED
    BY <2>1, <2>2 DEF CopiesMove
<1>3. ASSUME NEW d \in Drainers,
             Dequeue(d) \/ UpdateStatus(d) \/ UpdateFails(d) \/ Count(d) \/ CountFails(d)
             \/ MarkCompletedIfDone(d) \/ Refund(d) \/ DrainStops(d)
      PROVE  CopiesMove(c)
  <2>1. cache'[c] \in {cache[c], None}
    BY <1>1, <1>3 DEF Dequeue, UpdateStatus, UpdateFails, Count, CountFails,
                      MarkCompletedIfDone, Refund, DrainStops, keys
  <2>2. /\ drainer'[d].pc \notin {"fill", "refund"}
        /\ \A e \in Drainers \ {d} : drainer'[e] = drainer[e]
    <3>1. ASSUME NEW pc \in {"count", "mark", "fetch"}, DrainTo(d, pc)
          PROVE  <2>2
      BY <1>1, <3>1 DEF DrainTo, DrainerStates
    <3>2. DrainDone(d) => <2>2
      BY <1>1 DEF DrainDone, IdleDrainer
    <3>3. Dequeue(d) => <2>2
      BY <1>1 DEF Dequeue, IdleDrainer
    <3> QED
      BY <1>3, <3>1, <3>2, <3>3
         DEF UpdateStatus, UpdateFails, Count, CountFails, MarkCompletedIfDone, Refund,
             DrainStops
  <2> QED
    BY <1>2, <2>1, <2>2
(* A copy at hand is refunded if it says completed without a lead.         *)
<1>4. ASSUME NEW d \in Drainers, NEW copy \in CampaignRows, RefundIfEmpty(d, copy),
             MessageCampaign(d) \in Campaigns, copy \in Copies(MessageCampaign(d)),
             cache'[c] = cache[c] \/ (c = MessageCampaign(d) /\ cache'[c] = copy)
      PROVE  CopiesMove(c)
  <2>1. /\ \A e \in Drainers \ {d} : drainer'[e] = drainer[e]
        /\ drainer'[d].pc \in {"refund", "idle"}
        /\ drainer'[d].pc = "refund" => /\ copy.status = "completed" /\ copy.leads = 0
                                        /\ drainer'[d].msg = drainer[d].msg
    BY <1>1, <1>4 DEF RefundIfEmpty, DrainDone, IdleDrainer, DrainerStates
  <2>2. Copies(c)' \subseteq Copies(c)
    BY <1>1, <1>4, <2>1 DEF Copies, MessageCampaign, Message
  <2>3. ASSUME Refunding(c)'
        PROVE  \/ Refunding(c)
               \/ \E x \in Copies(c) : x.status = "completed" /\ x.leads = 0
    <3>1. PICK e \in Drainers : drainer'[e].pc = "refund" /\ MessageCampaign(e)' = c
      BY <2>3 DEF Refunding
    <3>2. CASE e = d
      <4>1. MessageCampaign(d) = c
        BY <2>1, <3>1, <3>2 DEF MessageCampaign, Message
      <4> QED
        BY <1>4, <2>1, <3>1, <3>2, <4>1
    <3>3. CASE e # d
      BY <2>1, <3>1, <3>3 DEF Refunding, MessageCampaign, Message
    <3> QED
      BY <3>2, <3>3
  <2> QED
    BY <2>2, <2>3 DEF CopiesMove
<1>5. ASSUME NEW d \in Drainers, drainer[d].pc # "idle"
      PROVE  MessageCampaign(d) \in Campaigns
  BY <1>5, JobsAssumption
     DEF TypeOK, DrainersOK, MessageCampaign, Message, StatusMessages
<1>6. ASSUME NEW d \in Drainers, FetchHit(d)
      PROVE  CopiesMove(c)
  <2>1. /\ MessageCampaign(d) \in Campaigns /\ cache[MessageCampaign(d)] # None
        /\ RefundIfEmpty(d, cache[MessageCampaign(d)]) /\ UNCHANGED cache
    BY <1>5, <1>6 DEF FetchHit, keys
  <2>2. cache[MessageCampaign(d)] \in CampaignRows
    BY <1>1, <2>1
  <2>3. cache[MessageCampaign(d)] \in Copies(MessageCampaign(d))
    BY <2>1 DEF Copies
  <2> QED
    BY <1>4, <2>1, <2>2, <2>3
<1>7. ASSUME NEW d \in Drainers, FetchMiss(d)
      PROVE  CopiesMove(c)
  <2>1. /\ UNCHANGED <<cache, campaigns>>
        /\ drainer' = [drainer EXCEPT ![d].pc = "fill",
                                      ![d].copy = campaigns[MessageCampaign(d)]]
    BY <1>7 DEF FetchMiss, tables, keys
  <2>2. /\ \A e \in Drainers \ {d} : drainer'[e] = drainer[e]
        /\ drainer'[d].pc = "fill" /\ drainer'[d].msg = drainer[d].msg
        /\ drainer'[d].copy = campaigns[MessageCampaign(d)]
    BY <1>1, <2>1 DEF DrainerStates
  <2>3. Copies(c)' \subseteq Copies(c) \cup {campaigns[c]}
    <3>1. \A e \in Drainers \ {d} : MessageCampaign(e)' = MessageCampaign(e)
      BY <2>2 DEF MessageCampaign, Message
    <3>2. MessageCampaign(d)' = MessageCampaign(d)
      BY <2>2 DEF MessageCampaign, Message
    <3>3. ASSUME NEW e \in Drainers, drainer'[e].pc = "fill", MessageCampaign(e)' = c
          PROVE  \/ drainer'[e].copy = campaigns[c]
                 \/ drainer'[e] = drainer[e] /\ MessageCampaign(e) = c
      BY <2>2, <3>1, <3>2, <3>3
    <3> QED
      BY <1>1, <2>1, <3>3 DEF Copies
  <2>4. Refunding(c)' => Refunding(c)
    BY <2>2 DEF Refunding, MessageCampaign, Message
  <2>5. CASE MessageCampaign(d) = c
    <3>1. request[c].pc = "accepted"
      BY <1>7, <2>5, DrainedAreAccepted DEF FetchMiss
    <3>2. campaigns[c].status # "none"
      BY <3>1 DEF RequestsInOrder, RowAfterCheck
    <3> QED
      BY <2>1, <2>3, <2>4, <3>2 DEF CopiesMove
  <2>6. CASE MessageCampaign(d) # c
    <3>1. MessageCampaign(d)' # c
      BY <2>2, <2>6 DEF MessageCampaign, Message
    <3>2. ASSUME NEW e \in Drainers, drainer'[e].pc = "fill", MessageCampaign(e)' = c
          PROVE  drainer'[e] = drainer[e] /\ MessageCampaign(e) = c
      <4>1. drainer'[e] = drainer[e]
        BY <2>2, <3>1, <3>2
      <4> QED
        BY <3>2, <4>1 DEF MessageCampaign, Message
    <3>3. Copies(c)' \subseteq Copies(c)
      BY <1>1, <2>1, <3>2 DEF Copies
    <3> QED
      BY <2>4, <3>3 DEF CopiesMove
  <2> QED
    BY <2>5, <2>6
<1>8. ASSUME NEW d \in Drainers, Fill(d)
      PROVE  CopiesMove(c)
  <2>1. /\ drainer[d].pc = "fill" /\ RefundIfEmpty(d, drainer[d].copy)
        /\ cache' = [cache EXCEPT ![MessageCampaign(d)] = drainer[d].copy]
        /\ MessageCampaign(d) \in Campaigns
    BY <1>5, <1>8 DEF Fill
  <2>2. drainer[d].copy \in CampaignRows
    BY <2>1 DEF TypeOK, DrainersOK
  <2>3. drainer[d].copy \in Copies(MessageCampaign(d))
    BY <2>1 DEF Copies
  <2>4. cache'[c] = cache[c] \/ (c = MessageCampaign(d) /\ cache'[c] = drainer[d].copy)
    BY <1>1, <2>1
  <2> QED
    BY <1>4, <2>1, <2>2, <2>3, <2>4
<1> QED
  BY <1>3, <1>6, <1>7, <1>8 DEF LeadRecoveryNext, DrainStep

LEMMA CopiesAreMoved ==
    ASSUME TypeOK, NothingBeforeAccepted, RequestsInOrder, [Next]_vars,
           NEW c \in Campaigns
    PROVE  CopiesMove(c)
<1>1. CASE RunnerNext \/ WatchdogNext \/ UNCHANGED vars
  <2>1. Copies(c)' = Copies(c) /\ Refunding(c)' = Refunding(c)
    BY <1>1, QuietPrograms DEF Copies, Refunding, MessageCampaign, Message
  <2> QED
    BY <2>1 DEF CopiesMove
<1> QED
  BY <1>1, ServiceMovesCopies, RecoveryMovesCopies DEF Next

(* Attempts never decrease.                                                *)
LEMMA NeverWasRequeued ==
    ASSUME TypeOK, [Next]_vars, NEW c, NeverRequeued(c)'
    PROVE  NeverRequeued(c)
<1> SUFFICES ASSUME NEW j \in JobsOf(c)
             PROVE  jobs[j].attempt = 0
  BY DEF NeverRequeued
<1>1. j \in Jobs /\ jobs'[j].attempt = 0
  BY DEF NeverRequeued, JobsOf
<1> QED
  BY <1>1, AttemptGrows

(* No copy of a campaign without a requeue says completed too early.       *)
LEMMA CopiesStayTrue == Spec => []CopiesTrue
<1>1. Init => CopiesTrue
  <2> SUFFICES ASSUME Init, NEW c \in Campaigns
               PROVE  Copies(c) = {} /\ ~Refunding(c)
    BY DEF CopiesTrue
  <2> QED
    BY DEF Init, Copies, Refunding, IdleViewer, IdleDrainer
<1>2. ASSUME TypeOK, NothingBeforeAccepted, RunsAccounted, OnlyCountedCount,
             RequestsInOrder, CopiesTrue, [Next]_vars
      PROVE  CopiesTrue'
  <2> SUFFICES ASSUME NEW c \in Campaigns, NeverRequeued(c)'
               PROVE  /\ \A copy \in Copies(c)' : copy.status = "completed" =>
                            /\ campaigns'[c].status = "completed"
                            /\ campaigns'[c].leads = copy.leads
                      /\ Refunding(c)' => EmptyDone(c)'
    BY DEF CopiesTrue
  <2>1. NeverRequeued(c) /\ CopiesMove(c)
    BY <1>2, NeverWasRequeued, CopiesAreMoved
  <2>2. /\ \A copy \in Copies(c) : copy.status = "completed" =>
              campaigns[c].status = "completed" /\ campaigns[c].leads = copy.leads
        /\ Refunding(c) => EmptyDone(c)
    BY <1>2, <2>1 DEF CopiesTrue
  <2>3. campaigns[c].status = "completed" =>
           campaigns'[c].status = "completed" /\ campaigns'[c].leads = campaigns[c].leads
    BY <1>2, <2>1, DoneStays
  <2>4. ASSUME NEW copy \in Copies(c)', copy.status = "completed"
        PROVE  campaigns'[c].status = "completed" /\ campaigns'[c].leads = copy.leads
    BY <2>1, <2>2, <2>3, <2>4 DEF CopiesMove
  <2>5. Refunding(c)' => EmptyDone(c)'
    BY <2>1, <2>2, <2>3 DEF CopiesMove, EmptyDone
  <2> QED
    BY <2>4, <2>5
<1> QED
  BY <1>1, <1>2, TypeCorrect, NothingRunsBeforeAccepted, RunsAreAccounted,
     CountOnlyCounted, OrderHolds, PTL DEF Spec

(* With one drainer and no readers, the row changes only where no copy of  *)
(* it is left.                                                             *)
LEMMA CopiesStayCurrent ==
    ASSUME \A d, e \in Drainers : d = e
    PROVE  Spec => []CopiesCurrent
<1>1. Init => CopiesCurrent
  <2> SUFFICES ASSUME Init, NEW c \in Campaigns
               PROVE  Copies(c) = {}
    BY DEF CopiesCurrent
  <2> QED
    BY DEF Init, Copies, IdleViewer, IdleDrainer
<1>2. ASSUME TypeOK, NothingBeforeAccepted, RequestsInOrder, CopiesCurrent, [Next]_vars
      PROVE  CopiesCurrent'
  <2> SUFFICES ASSUME Viewers = {}, NEW c \in Campaigns, NEW copy \in Copies(c)'
               PROVE  copy = campaigns'[c] /\ copy.status # "none"
    BY DEF CopiesCurrent
  <2>1. CopiesMove(c)
    BY <1>2, CopiesAreMoved
  <2>2. \A x \in Copies(c) : x = campaigns[c] /\ x.status # "none"
    BY <1>2 DEF CopiesCurrent
  <2>3. CASE UNCHANGED campaigns
    BY <2>1, <2>2, <2>3 DEF CopiesMove
  <2>4. CASE campaigns'[c] = campaigns[c]
    BY <2>1, <2>2, <2>4 DEF CopiesMove
  <2>5. campaigns \in [Campaigns -> CampaignRows]
    BY <1>2 DEF TypeOK, CampaignsOK
  <2>6. ASSUME NEW b \in Campaigns, InsertCampaign(b), campaigns' # campaigns
        PROVE  copy = campaigns'[c] /\ copy.status # "none"
    <3>1. CASE b = c
      <4>1. campaigns[c].status = "none"
        BY <1>2, <2>6, <3>1
           DEF InsertCampaign, RequestStep, RequestsInOrder, RowAfterCheck
      <4> QED
        BY <2>1, <2>2, <2>6, <4>1 DEF CopiesMove
    <3>2. CASE b # c
      BY <2>4, <2>5, <2>6, <3>2 DEF InsertCampaign
    <3> QED
      BY <3>1, <3>2
  <2>7. ASSUME NEW d \in Drainers, Count(d) \/ MarkCompletedIfDone(d)
        PROVE  copy = campaigns'[c] /\ copy.status # "none"
    <3>1. CASE MessageCampaign(d) = c
      <4>1. drainer \in [Drainers -> DrainerStates] /\ cache \in [Campaigns -> CampaignRows \cup {None}]
        BY <1>2 DEF TypeOK, DrainersOK, KeysOK
      <4>2. cache'[c] = None
        BY <2>7, <3>1, <4>1 DEF Count, MarkCompletedIfDone
      <4>3. drainer'[d].pc # "fill"
        BY <2>7, <4>1 DEF Count, MarkCompletedIfDone, DrainTo, DrainerStates
      <4>4. \A e \in Drainers : drainer'[e].pc # "fill"
        BY <4>3
      <4> QED
        BY <4>2, <4>4 DEF Copies
    <3>2. CASE MessageCampaign(d) # c
      BY <2>4, <2>5, <2>7, <3>2 DEF Count, MarkCompletedIfDone
    <3> QED
      BY <3>1, <3>2
  <2> QED
    BY <1>2, <2>3, <2>6, <2>7, RowsMove
<1> QED
  BY <1>1, <1>2, TypeCorrect, NothingRunsBeforeAccepted, OrderHolds, PTL DEF Spec

-----------------------------------------------------------------------------
(***************************************************************************)
(* The sum of the counters.                                                *)
(***************************************************************************)

(* A total takes values below 0 for 0.                                     *)
LEMMA TotalOfPositive ==
    ASSUME NEW S, NEW f \in [S -> Int]
    PROVE  Total(f) = Total([x \in S |-> IF f[x] > 0 THEN f[x] ELSE 0])
<1> DEFINE g == [x \in S |-> IF f[x] > 0 THEN f[x] ELSE 0]
<1>1. ASSUME NEW x \in S
      PROVE  1..f[x] = 1..g[x]
  <2>1. g[x] = IF f[x] > 0 THEN f[x] ELSE 0
    OBVIOUS
  <2>2. f[x] \in Int
    OBVIOUS
  <2> HIDE DEF g
  <2> QED
    BY <2>1, <2>2
<1>2. DOMAIN f = S /\ DOMAIN g = S
  OBVIOUS
<1> HIDE DEF g
<1>3. Units(f) = Units(g)
  <2>1. \A x \in S : {x} \X (1..f[x]) = {x} \X (1..g[x])
    BY <1>1
  <2> QED
    BY <1>2, <2>1 DEF Units
<1> QED
  BY <1>3 DEF Total, g

(* One counter more or less changes the sum by as much.                    *)
LEMMA NetChange ==
    ASSUME NEW S, IsFiniteSet(S), NEW f \in [S -> Int], NEW g \in [S -> Int],
           NEW x \in S, \A y \in S \ {x} : g[y] = f[y]
    PROVE  Net(g) = Net(f) + (g[x] - f[x]) /\ Net(f) \in Int
<1> DEFINE Pos(h) == [y \in S |-> IF h[y] > 0 THEN h[y] ELSE 0]
           Minus(h) == [y \in S |-> -h[y]]
<1>1. ASSUME NEW h \in [S -> Int]
      PROVE  /\ Pos(h) \in [S -> Nat] /\ Pos(Minus(h)) \in [S -> Nat]
             /\ Net(h) = Total(Pos(h)) - Total(Pos(Minus(h)))
             /\ Total(Pos(h)) \in Nat /\ Total(Pos(Minus(h))) \in Nat
  <2>1. Minus(h) \in [S -> Int]
    OBVIOUS
  <2>2. Total(h) = Total(Pos(h))
    BY TotalOfPositive
  <2>3. Total(Minus(h)) = Total(Pos(Minus(h)))
    <3> DEFINE k == Minus(h)
    <3>1. k \in [S -> Int]
      BY <2>1
    <3> HIDE DEF k
    <3>2. Total(k) = Total([y \in S |-> IF k[y] > 0 THEN k[y] ELSE 0])
      BY <3>1, TotalOfPositive
    <3> QED
      BY <3>2 DEF k
  <2>4. Net(h) = Total(h) - Total(Minus(h))
    <3>1. DOMAIN h = S
      OBVIOUS
    <3> QED
      BY <3>1 DEF Net
  <2>5. Pos(h) \in [S -> Nat]
    OBVIOUS
  <2>6. Pos(Minus(h)) \in [S -> Nat]
    <3> DEFINE k == Minus(h)
    <3>1. k \in [S -> Int]
      BY <2>1
    <3> HIDE DEF k
    <3>2. [y \in S |-> IF k[y] > 0 THEN k[y] ELSE 0] \in [S -> Nat]
      BY <3>1
    <3> QED
      BY <3>2 DEF k
  <2> HIDE DEF Pos, Minus
  <2>7. Total(Pos(h)) \in Nat
    BY <2>5, TotalType
  <2>8. Total(Pos(Minus(h))) \in Nat
    BY <2>6, TotalType
  <2> QED
    BY <2>2, <2>3, <2>4, <2>5, <2>6, <2>7, <2>8
<1>2. \A y \in S \ {x} : Pos(f)[y] = Pos(g)[y] /\ Pos(Minus(f))[y] = Pos(Minus(g))[y]
  OBVIOUS
<1>3. /\ Pos(f)[x] = (IF f[x] > 0 THEN f[x] ELSE 0)
      /\ Pos(g)[x] = (IF g[x] > 0 THEN g[x] ELSE 0)
      /\ Pos(Minus(f))[x] = (IF -f[x] > 0 THEN -f[x] ELSE 0)
      /\ Pos(Minus(g))[x] = (IF -g[x] > 0 THEN -g[x] ELSE 0)
  OBVIOUS
<1>4. f[x] \in Int /\ g[x] \in Int
  OBVIOUS
<1> HIDE DEF Pos, Minus
<1>5. Total(Pos(g)) + Pos(f)[x] = Total(Pos(f)) + Pos(g)[x]
  BY <1>1, <1>2, TotalChange
<1>6. Total(Pos(Minus(g))) + Pos(Minus(f))[x] = Total(Pos(Minus(f))) + Pos(Minus(g))[x]
  BY <1>1, <1>2, TotalChange
<1>7. /\ Total(Pos(f)) \in Nat /\ Total(Pos(Minus(f))) \in Nat
      /\ Total(Pos(g)) \in Nat /\ Total(Pos(Minus(g))) \in Nat
  BY <1>1
<1>8. /\ Net(f) = Total(Pos(f)) - Total(Pos(Minus(f)))
      /\ Net(g) = Total(Pos(g)) - Total(Pos(Minus(g)))
  BY <1>1
<1>9. ASSUME NEW n \in Int
      PROVE  (IF n > 0 THEN n ELSE 0) - (IF -n > 0 THEN -n ELSE 0) = n
  OBVIOUS
<1>10. /\ Pos(f)[x] - Pos(Minus(f))[x] = f[x] /\ Pos(g)[x] - Pos(Minus(g))[x] = g[x]
       /\ Pos(f)[x] \in Nat /\ Pos(Minus(f))[x] \in Nat
       /\ Pos(g)[x] \in Nat /\ Pos(Minus(g))[x] \in Nat
  BY <1>3, <1>4, <1>9
<1>11. ASSUME NEW pf \in Nat, NEW pg \in Nat, NEW mf \in Nat, NEW mg \in Nat,
              NEW a \in Nat, NEW b \in Nat, NEW k \in Nat, NEW l \in Nat,
              pg + a = pf + b, mg + k = mf + l
       PROVE  pg - mg = (pf - mf) + ((b - l) - (a - k)) /\ pf - mf \in Int
  BY <1>11
<1>12. /\ Net(g) = Net(f) + ((Pos(g)[x] - Pos(Minus(g))[x])
                              - (Pos(f)[x] - Pos(Minus(f))[x]))
       /\ Net(f) \in Int
  BY <1>5, <1>6, <1>7, <1>8, <1>10, <1>11
<1> QED
  BY <1>10, <1>12

(* Nothing was counted at the start.                                       *)
LEMMA NetOfZero ==
    ASSUME NEW S, NEW f \in [S -> Int], \A x \in S : f[x] = 0
    PROVE  Net(f) = 0
<1> DEFINE g == [x \in S |-> -f[x]]
<1>1. f \in [S -> Nat] /\ g \in [S -> Nat] /\ \A x \in S : g[x] = 0
  OBVIOUS
<1>2. DOMAIN f = S
  OBVIOUS
<1> HIDE DEF g
<1>3. Total(f) = 0 /\ Total(g) = 0
  BY <1>1, TotalZero
<1> QED
  BY <1>2, <1>3 DEF Net, g

-----------------------------------------------------------------------------
(***************************************************************************)
(* Charges and refunds.                                                    *)
(***************************************************************************)

(* All the sets of campaigns counted here are finite.                      *)
LEMMA ChargesFinite ==
    ASSUME RequestsInOrder, NEW r, \A c \in Refunded(r) : EmptyDone(c)
    PROVE  /\ IsFiniteSet(TookAny) /\ IsFiniteSet(Refunded(r))
           /\ \A day : IsFiniteSet(Took(day)) /\ IsFiniteSet(Admitted(day))
           /\ \A day \in 1..MaxDay : IsFiniteSet(RefundedOn(r, day))
<1>1. \A c \in Campaigns : Charged(c) => c \in Begun
  BY DEF Charged, Begun, RequestsInOrder, RowAfterCheck
<1>2. \A c \in Campaigns : EmptyDone(c) => Charged(c)
  BY DEF EmptyDone, Charged
<1>3. TookAny \subseteq Begun /\ Refunded(r) \subseteq Begun
  BY <1>1, <1>2 DEF TookAny, Refunded
<1>4. \A day : Took(day) \subseteq Begun /\ Admitted(day) \subseteq Begun
  BY <1>1 DEF Took, Admitted
<1>5. \A day \in 1..MaxDay : RefundedOn(r, day) \subseteq Refunded(r)
  BY DEF RefundedOn, Refunded
<1>6. IsFiniteSet(Begun)
  BY DEF RequestsInOrder
<1> QED
  BY <1>3, <1>4, <1>5, <1>6, FS_Subset

LEMMA ChargesFiniteNext ==
    ASSUME RequestsInOrder', NEW r, \A c \in Refunded(r) : EmptyDone(c)'
    PROVE  /\ IsFiniteSet(TookAny')
           /\ \A day : IsFiniteSet(Took(day)') /\ IsFiniteSet(Admitted(day)')
<1>1. \A c \in Campaigns : Charged(c)' => c \in Begun'
  BY DEF Charged, Begun, RequestsInOrder, RowAfterCheck
<1>2. TookAny' \subseteq Begun'
  BY <1>1 DEF TookAny
<1>3. \A day : Took(day)' \subseteq Begun' /\ Admitted(day)' \subseteq Begun'
  BY <1>1 DEF Took, Admitted
<1>4. IsFiniteSet(Begun')
  BY DEF RequestsInOrder
<1> QED
  BY <1>2, <1>3, <1>4, FS_Subset

(* A step that charges nobody.                                             *)
Calm(c) ==
    /\ request'[c].day = request[c].day
    /\ Charged(c)' => Charged(c)
    /\ Charged(c)' /\ request'[c].pc # "over" => request[c].pc # "over"
    /\ faults' = 0 /\ Charged(c) => Charged(c)'

LEMMA HandlersAreCalm ==
    ASSUME TypeOK, TypeOK', RequestsInOrder, NEW b \in Campaigns,
           InsertCampaign(b) \/ InsertJobs(b) \/ EnqueueJobs(b) \/ InsertJobsFails(b)
           \/ CreateStops(b),
           NEW c \in Campaigns
    PROVE  Calm(c)
<1>1. /\ request \in [Campaigns -> [pc : RequestPCs, day : 1..MaxDay]]
      /\ campaigns \in [Campaigns -> CampaignRows]
      /\ faults \in Nat
  BY BoundsAssumption DEF TypeOK, RequestsOK, CampaignsOK
<1>2. RowAfterCheck(c)
  BY DEF RequestsInOrder
<1>3. ASSUME UNCHANGED campaigns,
             NEW from \in {"inserted", "batched"}, NEW to \in {"batched", "accepted", "failed"},
             RequestStep(b, from, to)
      PROVE  Calm(c)
  <2>1. CASE b = c
    <3>1. /\ request[c].pc \in {"inserted", "batched"}
          /\ request'[c].pc \in {"batched", "accepted", "failed"}
          /\ request'[c].day = request[c].day
      BY <1>1, <1>3, <2>1 DEF RequestStep
    <3>2. campaigns[c].status # "none" /\ campaigns'[c].status # "none"
      BY <1>2, <1>3, <3>1 DEF RowAfterCheck
    <3> QED
      BY <3>1, <3>2 DEF Calm, Charged
  <2>2. CASE b # c
    <3>1. request'[c] = request[c]
      BY <1>1, <1>3, <2>2 DEF RequestStep
    <3> QED
      BY <1>3, <3>1 DEF Calm, Charged
  <2> QED
    BY <2>1, <2>2
<1>4. CASE InsertCampaign(b)
  <2>1. /\ RequestStep(b, "counted", "inserted")
        /\ campaigns' = [campaigns EXCEPT ![b].status = "active"]
    BY <1>4 DEF InsertCampaign
  <2>2. CASE b = c
    <3>1. /\ request[c].pc = "counted" /\ request'[c].pc = "inserted"
          /\ request'[c].day = request[c].day
      BY <1>1, <2>1, <2>2 DEF RequestStep
    <3>2. campaigns'[c].status = "active"
      BY <1>1, <2>1, <2>2 DEF CampaignRows
    <3> QED
      BY <3>1, <3>2 DEF Calm, Charged
  <2>3. CASE b # c
    BY <1>1, <2>1, <2>3 DEF RequestStep, Calm, Charged
  <2> QED
    BY <2>2, <2>3
<1>5. CASE InsertJobs(b)
  BY <1>3, <1>5 DEF InsertJobs
<1>6. CASE EnqueueJobs(b)
  BY <1>3, <1>6 DEF EnqueueJobs, tables
<1>7. CASE InsertJobsFails(b)
  BY <1>3, <1>7 DEF InsertJobsFails
<1>8. CASE CreateStops(b)
  <2>1. /\ UNCHANGED campaigns /\ faults' # 0
        /\ request[b].pc \in {"new", "over", "counted", "inserted", "batched"}
        /\ request' = [request EXCEPT ![b].pc =
                          IF @ = "over" THEN "rejected" ELSE "failed"]
    BY <1>1, <1>8 DEF CreateStops, Fault, tables
  <2>2. CASE b = c
    <3>1. /\ request[c].pc \in {"new", "over", "counted", "inserted", "batched"}
          /\ request'[c].pc \in {"rejected", "failed"}
          /\ request'[c].day = request[c].day
      BY <1>1, <2>1, <2>2
    <3>2. campaigns[c].status # "none" => request[c].pc \in {"inserted", "batched"}
      BY <1>2, <3>1 DEF RowAfterCheck
    <3> QED
      BY <2>1, <3>1, <3>2 DEF Calm, Charged
  <2>3. CASE b # c
    BY <1>1, <2>1, <2>3 DEF Calm, Charged
  <2> QED
    BY <2>2, <2>3
<1> QED
  BY <1>4, <1>5, <1>6, <1>7, <1>8

(* Only the check, the roll-back and the refund touch a counter.           *)
LEMMA OtherStepsAreCalm ==
    ASSUME TypeOK, TypeOK', RequestsInOrder, [Next]_vars
    PROVE  \/ \E b \in Campaigns : CheckLimit(b) \/ RollBack(b)
           \/ \E d \in Drainers : Refund(d)
           \/ UNCHANGED limit /\ \A c \in Campaigns : Calm(c)
<1>1. CASE UNCHANGED <<request, limit, campaigns>>
  BY <1>1 DEF Calm, Charged
<1>2. CASE CampaignServiceNext
  <2>1. \/ \E b \in Campaigns : CheckLimit(b) \/ RollBack(b)
        \/ UNCHANGED limit /\ \E b \in Campaigns :
              InsertCampaign(b) \/ InsertJobs(b) \/ EnqueueJobs(b) \/ InsertJobsFails(b)
              \/ CreateStops(b)
        \/ UNCHANGED <<request, limit, campaigns>>
    BY <1>2 DEF CampaignServiceNext, CreateStep, InsertCampaign, InsertJobs, EnqueueJobs,
                InsertJobsFails, CreateStops, CacheExpires, ViewerLoads, ViewerFills,
                NextDay, tables, keys
  <2> QED
    BY <1>1, <2>1, HandlersAreCalm
<1>3. CASE LeadRecoveryNext
  <2>1. UNCHANGED request /\ (UNCHANGED limit \/ \E d \in Drainers : Refund(d))
    BY <1>3 DEF LeadRecoveryNext, DrainStep, Dequeue, UpdateStatus, UpdateFails, Count,
                CountFails, MarkCompletedIfDone, FetchHit, FetchMiss, Fill, Refund,
                DrainStops, drainUnchanged, keys
  <2>2. ASSUME NEW c \in Campaigns
        PROVE  (campaigns'[c].status # "none") <=> (campaigns[c].status # "none")
    <3>1. ASSUME NEW d \in Drainers, Count(d) \/ MarkCompletedIfDone(d)
          PROVE  (campaigns'[c].status # "none") <=> (campaigns[c].status # "none")
      BY <3>1 DEF Count, MarkCompletedIfDone, TypeOK, CampaignsOK, CampaignRows
    <3>2. ASSUME NEW b \in Campaigns, InsertCampaign(b)
          PROVE  (campaigns'[c].status # "none") <=> (campaigns[c].status # "none")
      <4>1. UNCHANGED request /\ request[b].pc = "counted" /\ request'[b].pc = "inserted"
        BY <2>1, <3>2 DEF InsertCampaign, RequestStep, TypeOK, RequestsOK
      <4> QED
        BY <4>1
    <3> QED
      BY <3>1, <3>2, RowsMove
  <2>3. \A c \in Campaigns : Calm(c)
    BY <2>1, <2>2 DEF Calm, Charged
  <2> QED
    BY <2>1, <2>3
<1> QED
  BY <1>1, <1>2, <1>3, QuietPrograms DEF Next

(* What was refunded stays ended, empty and closed.                        *)
LEMMA RefundsStay ==
    ASSUME TypeOK, RunsAccounted, OnlyCountedCount, RequestsInOrder, [Next]_vars,
           NEW c \in Campaigns, NeverRequeued(c), EmptyDone(c), ~Closing(c)
    PROVE  EmptyDone(c)' /\ ~Closing(c)' /\ request'[c].day = request[c].day
<1>1. EmptyDone(c)'
  BY DoneStays DEF EmptyDone
<1>2. ASSUME Closing(c)'
      PROVE  FALSE
  <2>1. PICK d \in Drainers : drainer'[d].pc \in AfterCount /\ MessageCampaign(d)' = c
    BY <1>2 DEF Closing
  <2>2. drainer \in [Drainers -> DrainerStates]
    BY DEF TypeOK, DrainersOK
  <2>3. drainer'[d] # drainer[d]
    BY <2>1 DEF Closing, MessageCampaign, Message
  <2>4. CASE LeadRecoveryNext
    <3>1. PICK e \in Drainers : Dequeue(e) \/ DrainStep(e) \/ UpdateFails(e)
                                \/ CountFails(e) \/ DrainStops(e)
      BY <2>4 DEF LeadRecoveryNext
    <3>3. d = e
      BY <2>2, <2>3, <3>1
         DEF Dequeue, DrainStep, UpdateStatus, UpdateFails, Count, CountFails,
             MarkCompletedIfDone, FetchHit, FetchMiss, Fill, Refund, DrainStops,
             DrainTo, DrainDone, RefundIfEmpty
    <3>4. drainer[d].pc \in AfterCount => MessageCampaign(d) # c
      BY DEF Closing
    <3>5. drainer[d].pc = "count" => MessageCampaign(d) # c
      BY NothingToCount DEF EmptyDone
    <3>6. drainer'[d].msg = drainer[d].msg /\ drainer[d].pc \in AfterCount \cup {"count"}
      <4>1. ~(Dequeue(d) \/ UpdateStatus(d) \/ UpdateFails(d) \/ Refund(d)
              \/ DrainStops(d))
        <5>1. DrainDone(d) => drainer'[d].pc = "idle"
          BY <2>2 DEF DrainDone, IdleDrainer
        <5>2. DrainTo(d, "count") => drainer'[d].pc = "count"
          BY <2>2 DEF DrainTo, DrainerStates
        <5>3. Dequeue(d) => drainer'[d].pc = "update"
          BY <2>2 DEF Dequeue, IdleDrainer
        <5> QED
          BY <2>1, <5>1, <5>2, <5>3
             DEF UpdateStatus, UpdateFails, Refund, DrainStops, AfterCount
      <4>2. CASE Count(d) \/ CountFails(d) \/ MarkCompletedIfDone(d) \/ FetchMiss(d)
        BY <2>2, <4>2
           DEF Count, CountFails, MarkCompletedIfDone, FetchMiss, DrainTo, DrainerStates,
               AfterCount
      <4>3. CASE FetchHit(d) \/ Fill(d)
        BY <2>1, <2>2, <4>3
           DEF FetchHit, Fill, RefundIfEmpty, DrainDone, IdleDrainer, DrainerStates,
               AfterCount
      <4> QED
        BY <3>1, <3>3, <4>1, <4>2, <4>3 DEF DrainStep
    <3>7. MessageCampaign(d)' = MessageCampaign(d)
      BY <3>6 DEF MessageCampaign, Message
    <3> QED
      BY <2>1, <3>4, <3>5, <3>6, <3>7
  <2>5. CASE ~LeadRecoveryNext
    <3>1. CampaignServiceNext => UNCHANGED drainer
      BY DEF CampaignServiceNext, CreateStep, CheckLimit, RollBack, InsertCampaign,
             InsertJobs, EnqueueJobs, InsertJobsFails, CreateStops, CacheExpires,
             ViewerLoads, ViewerFills, NextDay, serviceUnchanged
    <3> QED
      BY <2>3, <2>5, <3>1, QuietPrograms DEF Next
  <2> QED
    BY <2>4, <2>5
<1>3. request'[c].day = request[c].day
  <2>1. ASSUME NEW b \in Campaigns, CheckLimit(b)
        PROVE  request'[c].day = request[c].day
    <3>1. b # c
      BY <2>1 DEF CheckLimit, EmptyDone, RequestsInOrder, RowAfterCheck
    <3> QED
      BY <2>1, <3>1 DEF CheckLimit, TypeOK, RequestsOK
  <2>2. ASSUME NEW b \in Campaigns, RequestMoves(b), ~CheckLimit(b)
        PROVE  request'[c].day = request[c].day
    BY <2>2 DEF RequestMoves, CreateStep, RollBack, InsertCampaign, InsertJobs,
                EnqueueJobs, InsertJobsFails, CreateStops, RequestStep, TypeOK, RequestsOK
  <2> QED
    BY <2>1, <2>2, RequestsMove
<1> QED
  BY <1>1, <1>2, <1>3

(* Without readers and failures, a drainer that counts a campaign does not *)
(* let go of it, once it has ended empty, before it is refunded.           *)
LEMMA ClosingEnds ==
    ASSUME TypeOK, RequestsInOrder, CopiesCurrent, [Next]_vars, Viewers = {}, faults' = 0,
           NEW c \in Campaigns, EmptyDone(c)', EmptyDone(c) => Closing(c)
    PROVE  Closing(c)' \/ \E d \in Drainers : Refund(d) /\ MessageCampaign(d) = c
<1>1. drainer \in [Drainers -> DrainerStates] /\ campaigns \in [Campaigns -> CampaignRows]
  BY DEF TypeOK, DrainersOK, CampaignsOK
<1>2. faults = 0 /\ ~Fault
  <2>1. faults = 0
    BY FaultsStay
  <2> QED
    BY <2>1 DEF Fault
<1>3. ASSUME NEW d \in Drainers, MessageCampaign(d) = c, drainer'[d].msg = drainer[d].msg,
             drainer'[d].pc \in AfterCount
      PROVE  Closing(c)'
  BY <1>3 DEF Closing, MessageCampaign, Message
(* The step that ends the campaign is one of a drainer that counted it.    *)
<1>4. CASE ~EmptyDone(c)
  <2>1. campaigns'[c] # campaigns[c]
    BY <1>4 DEF EmptyDone
  <2>2. ASSUME NEW b \in Campaigns, InsertCampaign(b)
        PROVE  FALSE
    <3>1. b = c /\ campaigns'[c].status = "active"
      BY <1>1, <2>1, <2>2 DEF InsertCampaign, CampaignRows
    <3> QED
      BY <3>1 DEF EmptyDone
  <2>3. ASSUME NEW d \in Drainers, Count(d) \/ MarkCompletedIfDone(d)
        PROVE  Closing(c)'
    <3>1. MessageCampaign(d) = c
      BY <1>1, <2>1, <2>3 DEF Count, MarkCompletedIfDone
    <3>2. drainer'[d].msg = drainer[d].msg /\ drainer'[d].pc \in AfterCount
      BY <1>1, <2>3 DEF Count, MarkCompletedIfDone, DrainTo, DrainerStates, AfterCount
    <3> QED
      BY <1>3, <3>1, <3>2
  <2> QED
    BY <2>1, <2>2, <2>3, RowsMove
<1>5. CASE EmptyDone(c)
  <2>1. PICK d \in Drainers : drainer[d].pc \in AfterCount /\ MessageCampaign(d) = c
    BY <1>5 DEF Closing
  <2>2. CASE drainer'[d] = drainer[d]
    BY <1>3, <2>1, <2>2
  <2>3. CASE drainer'[d] # drainer[d]
    <3>1. LeadRecoveryNext
      <4>1. CampaignServiceNext => UNCHANGED drainer
        BY DEF CampaignServiceNext, CreateStep, CheckLimit, RollBack, InsertCampaign,
               InsertJobs, EnqueueJobs, InsertJobsFails, CreateStops, CacheExpires,
               ViewerLoads, ViewerFills, NextDay, serviceUnchanged
      <4> QED
        BY <2>3, <4>1, QuietPrograms DEF Next
    <3>2. Dequeue(d) \/ DrainStep(d)
      <4>1. PICK e \in Drainers : Dequeue(e) \/ DrainStep(e) \/ UpdateFails(e)
                                  \/ CountFails(e) \/ DrainStops(e)
        BY <3>1 DEF LeadRecoveryNext
      <4>2. Dequeue(e) \/ DrainStep(e)
        BY <1>2, <4>1 DEF UpdateFails, CountFails, DrainStops
      <4>3. d = e
        BY <1>1, <2>3, <4>2
           DEF Dequeue, DrainStep, UpdateStatus, Count, MarkCompletedIfDone, FetchHit,
               FetchMiss, Fill, Refund, DrainTo, DrainDone, RefundIfEmpty
      <4> QED
        BY <4>2, <4>3
    <3>3. CASE MarkCompletedIfDone(d) \/ FetchMiss(d)
      <4>1. drainer'[d].msg = drainer[d].msg /\ drainer'[d].pc \in AfterCount
        BY <1>1, <3>3 DEF MarkCompletedIfDone, FetchMiss, DrainTo, DrainerStates, AfterCount
      <4> QED
        BY <1>3, <2>1, <4>1
    <3>4. CASE FetchHit(d) \/ Fill(d)
      <4>1. PICK copy \in Copies(c) : RefundIfEmpty(d, copy)
        BY <2>1, <3>4 DEF FetchHit, Fill, Copies
      <4>2. copy = campaigns[c]
        BY <4>1 DEF CopiesCurrent
      <4>3. drainer'[d].msg = drainer[d].msg /\ drainer'[d].pc \in AfterCount
        BY <1>1, <1>5, <4>1, <4>2 DEF RefundIfEmpty, EmptyDone, DrainerStates, AfterCount
      <4> QED
        BY <1>3, <2>1, <4>3
    <3>5. ~(Dequeue(d) \/ UpdateStatus(d) \/ Count(d))
      BY <2>1 DEF Dequeue, UpdateStatus, Count, AfterCount
    <3> QED
      BY <2>1, <3>2, <3>3, <3>4, <3>5 DEF DrainStep
  <2> QED
    BY <2>2, <2>3
<1> QED
  BY <1>4, <1>5

(* The refunds of a step that refunds nobody else.                         *)
LEMMA RefundedStay ==
    ASSUME TypeOK, RunsAccounted, OnlyCountedCount, RequestsInOrder, [Next]_vars,
           NoRetries, NEW r \in [Campaigns -> 0..MaxDay], Covered(r)
    PROVE  \A c \in Refunded(r) : EmptyDone(c)' /\ ~Closing(c)' /\ request'[c].day <= r[c]
<1> SUFFICES ASSUME NEW c \in Refunded(r)
             PROVE  EmptyDone(c)' /\ ~Closing(c)' /\ request'[c].day <= r[c]
  OBVIOUS
<1>1. c \in Campaigns /\ NeverRequeued(c)
  BY DEF Refunded, NoRetries
<1>2. EmptyDone(c) /\ ~Closing(c) /\ request[c].day <= r[c]
  BY DEF Covered
<1> QED
  BY <1>1, <1>2, RefundsStay

(* What Exact says of the drainers, when nobody is refunded by the step.   *)
LEMMA OthersClose ==
    ASSUME TypeOK, RequestsInOrder, CopiesCurrent, [Next]_vars, Viewers = {}, faults' = 0,
           \A d \in Drainers : ~Refund(d),
           NEW r, Exact(r)
    PROVE  \A c \in Campaigns : EmptyDone(c)' => c \in Refunded(r) \/ Closing(c)'
<1> SUFFICES ASSUME NEW c \in Campaigns, EmptyDone(c)', c \notin Refunded(r)
             PROVE  Closing(c)'
  OBVIOUS
<1>1. EmptyDone(c) => Closing(c)
  BY FaultsStay DEF Exact
<1> QED
  BY <1>1, ClosingEnds

(* A calm step.                                                            *)
LEMMA CalmIsCovered ==
    ASSUME TypeOK, RunsAccounted, OnlyCountedCount, RequestsInOrder, CopiesCurrent,
           [Next]_vars, NoRetries, UNCHANGED limit, \A c \in Campaigns : Calm(c),
           \A d \in Drainers : ~Refund(d),
           NEW r \in [Campaigns -> 0..MaxDay], Covered(r), Exact(r)
    PROVE  Covered(r)' /\ Exact(r)'
<1>1. /\ \A day : Took(day)' \subseteq Took(day) /\ Admitted(day)' \subseteq Admitted(day)
      /\ faults' = 0 => TookAny' = TookAny
  BY DEF Calm, Took, Admitted, TookAny
<1>2. \A c \in Refunded(r) : EmptyDone(c)
  BY DEF Covered
<1>3. ASSUME NEW day \in 1..MaxDay
      PROVE  /\ Cardinality(Took(day)') <= Cardinality(Took(day))
             /\ Cardinality(Admitted(day)') <= Cardinality(Admitted(day))
             /\ Cardinality(Took(day)') \in Nat /\ Cardinality(Took(day)) \in Nat
             /\ Cardinality(Admitted(day)') \in Nat /\ Cardinality(Admitted(day)) \in Nat
             /\ Cardinality(RefundedOn(r, day)) \in Nat
  <2>1. /\ IsFiniteSet(Took(day)) /\ IsFiniteSet(Admitted(day))
        /\ IsFiniteSet(RefundedOn(r, day))
    BY <1>2, ChargesFinite
  <2>2. IsFiniteSet(Took(day)') /\ IsFiniteSet(Admitted(day)')
    BY <1>1, <2>1, FS_Subset
  <2> QED
    BY <1>1, <2>1, <2>2, FS_Subset, FS_CardinalityType
<1>4. ASSUME NEW day \in 1..MaxDay
      PROVE  /\ Cardinality(Took(day)') <= limit'[day] + Cardinality(RefundedOn(r, day))
             /\ Cardinality(Admitted(day)')
                    <= DailyLimit + Cardinality(RefundedOn(r, day))
  <2>1. /\ Cardinality(Took(day)) <= limit[day] + Cardinality(RefundedOn(r, day))
        /\ Cardinality(Admitted(day)) <= DailyLimit + Cardinality(RefundedOn(r, day))
    BY DEF Covered
  <2>2. limit'[day] = limit[day] /\ limit[day] \in Int /\ DailyLimit \in Nat
    BY BoundsAssumption DEF TypeOK, KeysOK
  <2> QED
    BY <1>3, <2>1, <2>2
<1>5. Covered(r)'
  BY <1>4, RefundedStay DEF Covered, Refunded, RefundedOn
<1>6. Exact(r)'
  <2> SUFFICES ASSUME faults' = 0
               PROVE  /\ Net(limit') = Cardinality(TookAny') - Cardinality(Refunded(r))
                      /\ Viewers = {} => \A c \in Campaigns :
                            EmptyDone(c)' => c \in Refunded(r) \/ Closing(c)'
    BY DEF Exact, Refunded
  <2>1. Net(limit) = Cardinality(TookAny) - Cardinality(Refunded(r))
    BY FaultsStay DEF Exact
  <2> QED
    BY <1>1, <2>1, OthersClose
<1> QED
  BY <1>5, <1>6

(* One counter changes, and the sum with it.                               *)
LEMMA OneCounter ==
    ASSUME TypeOK, TypeOK', NEW day \in 1..MaxDay,
           \A other \in (1..MaxDay) \ {day} : limit'[other] = limit[other]
    PROVE  Net(limit') = Net(limit) + (limit'[day] - limit[day]) /\ Net(limit) \in Int
<1> DEFINE S == 1..MaxDay
           f == limit
           g == limit'
<1>1. f \in [S -> Int] /\ g \in [S -> Int] /\ day \in S
  BY DEF TypeOK, KeysOK
<1>2. IsFiniteSet(S)
  BY FS_Interval, BoundsAssumption
<1>3. \A y \in S \ {day} : g[y] = f[y]
  OBVIOUS
<1> HIDE DEF S, f, g
<1>4. Net(g) = Net(f) + (g[day] - f[day]) /\ Net(f) \in Int
  BY <1>1, <1>2, <1>3, NetChange
<1> QED
  BY <1>4 DEF f, g

(* The check takes a place of the day, and admits the campaign only if     *)
(* what was taken and not refunded stays within the limit.                 *)
LEMMA CheckIsCovered ==
    ASSUME TypeOK, RunsAccounted, OnlyCountedCount, RequestsInOrder, CopiesCurrent,
           [Next]_vars, TypeOK', NoRetries, NEW b \in Campaigns, CheckLimit(b),
           NEW now \in 1..MaxDay, now = today,
           NEW r \in [Campaigns -> 0..MaxDay], Covered(r), Exact(r)
    PROVE  Covered(r)' /\ Exact(r)'
<1>1. /\ request \in [Campaigns -> [pc : RequestPCs, day : 1..MaxDay]]
      /\ limit \in [1..MaxDay -> Int]
  BY DEF TypeOK, RequestsOK, KeysOK
<1>2. /\ request[b].pc = "new"
      /\ UNCHANGED <<campaigns, drainer, faults>>
      /\ limit' = [limit EXCEPT ![now] = @ + 1]
      /\ request'[b].day = now
      /\ \/ request'[b].pc = "over"
         \/ request'[b].pc = "counted" /\ limit'[now] <= DailyLimit
      /\ \A c \in Campaigns \ {b} : request'[c] = request[c]
  <2>1. limit'[now] \in Int /\ DailyLimit \in Nat
    BY <1>1, BoundsAssumption DEF CheckLimit
  <2> QED
    BY <1>1, <2>1 DEF CheckLimit, tables, serviceUnchanged
<1>3. /\ ~Charged(b) /\ Charged(b)'
      /\ \A c \in Campaigns \ {b} : Charged(c)' <=> Charged(c)
  BY <1>2 DEF Charged, RequestsInOrder, RowAfterCheck
<1>4. /\ \A day : b \notin Took(day)
      /\ Took(now)' = Took(now) \cup {b}
      /\ \A day : day # now => /\ Took(day)' = Took(day)
                                 /\ Admitted(day)' = Admitted(day)
  <2>1. \A day : b \notin Took(day)
    BY <1>3 DEF Took
  <2>2. Took(now)' = Took(now) \cup {b}
    BY <1>2, <1>3 DEF Took
  <2>3. ASSUME NEW day, day # now
        PROVE  Took(day)' = Took(day)
    BY <1>2, <1>3, <2>1, <2>3 DEF Took
  <2>4. ASSUME NEW day, day # now
        PROVE  Admitted(day)' = Admitted(day)
    <3>1. \A c \in Took(day) : request'[c] = request[c]
      BY <1>2, <2>1 DEF Took
    <3> QED
      BY <2>3, <2>4, <3>1 DEF Admitted
  <2> QED
    BY <2>1, <2>2, <2>3, <2>4
<1>5. TookAny' = TookAny \cup {b} /\ b \notin TookAny
  BY <1>3 DEF TookAny
<1>6. \/ Admitted(now)' = Admitted(now)
      \/ Admitted(now)' \subseteq Took(now)' /\ limit'[now] <= DailyLimit
  <2>1. CASE request'[b].pc = "over"
    <3>1. \A c \in Took(now) : request'[c] = request[c]
      BY <1>2, <1>4 DEF Took
    <3>2. Admitted(now)' = Admitted(now)
      BY <1>4, <2>1, <3>1 DEF Admitted
    <3> QED
      BY <3>2
  <2>2. CASE request'[b].pc # "over"
    BY <1>2, <2>2 DEF Admitted
  <2> QED
    BY <2>1, <2>2
<1>7. /\ IsFiniteSet(TookAny) /\ IsFiniteSet(Refunded(r))
      /\ \A day : IsFiniteSet(Took(day)) /\ IsFiniteSet(Admitted(day))
      /\ \A day \in 1..MaxDay : IsFiniteSet(RefundedOn(r, day))
  BY ChargesFinite DEF Covered
<1>8. /\ limit'[now] = limit[now] + 1 /\ limit[now] \in Int
      /\ \A day \in (1..MaxDay) \ {now} : limit'[day] = limit[day]
      /\ DailyLimit \in Nat
  BY <1>1, <1>2, BoundsAssumption
<1>9. ASSUME NEW day \in 1..MaxDay
      PROVE  /\ Cardinality(Took(day)') <= limit'[day] + Cardinality(RefundedOn(r, day))
             /\ Cardinality(Admitted(day)')
                    <= DailyLimit + Cardinality(RefundedOn(r, day))
  <2>1. /\ Cardinality(Took(day)) <= limit[day] + Cardinality(RefundedOn(r, day))
        /\ Cardinality(Admitted(day)) <= DailyLimit + Cardinality(RefundedOn(r, day))
    BY DEF Covered
  <2>2. CASE day # now
    BY <1>4, <1>8, <2>1, <2>2
  <2>3. CASE day = now
    <3>1. /\ Cardinality(Took(now)') = Cardinality(Took(now)) + 1
          /\ IsFiniteSet(Took(now)')
      BY <1>4, <1>7, FS_AddElement
    <3>2. Cardinality(Took(now)) \in Nat /\ Cardinality(RefundedOn(r, now)) \in Nat
      BY <1>1, <1>7, FS_CardinalityType
    <3>3. Cardinality(Took(now)') <= limit'[now] + Cardinality(RefundedOn(r, now))
      BY <1>8, <2>1, <2>3, <3>1, <3>2
    <3>4. CASE Admitted(now)' = Admitted(now)
      BY <2>1, <2>3, <3>3, <3>4
    <3>5. CASE Admitted(now)' \subseteq Took(now)' /\ limit'[now] <= DailyLimit
      <4>1. /\ Cardinality(Admitted(now)') <= Cardinality(Took(now)')
            /\ Cardinality(Admitted(now)') \in Nat /\ Cardinality(Took(now)') \in Nat
        BY <3>1, <3>5, FS_Subset, FS_CardinalityType
      <4> QED
        BY <1>8, <2>3, <3>2, <3>3, <3>5, <4>1
    <3> QED
      BY <1>6, <3>4, <3>5
  <2> QED
    BY <2>2, <2>3
<1>10. Covered(r)'
  BY <1>9, RefundedStay DEF Covered, Refunded, RefundedOn
<1>11. \A d \in Drainers : ~Refund(d)
  BY <1>2 DEF Refund, DrainDone, IdleDrainer, TypeOK, DrainersOK
<1>12. Exact(r)'
  <2> SUFFICES ASSUME faults' = 0
               PROVE  /\ Net(limit') = Cardinality(TookAny') - Cardinality(Refunded(r))
                      /\ Viewers = {} => \A c \in Campaigns :
                            EmptyDone(c)' => c \in Refunded(r) \/ Closing(c)'
    BY DEF Exact, Refunded
  <2>1. Net(limit) = Cardinality(TookAny) - Cardinality(Refunded(r))
    BY FaultsStay DEF Exact
  <2>2. Net(limit') = Net(limit) + 1
    <3>1. Net(limit') = Net(limit) + (limit'[now] - limit[now]) /\ Net(limit) \in Int
      BY <1>1, <1>8, OneCounter
    <3> QED
      BY <1>8, <3>1
  <2>3. Cardinality(TookAny') = Cardinality(TookAny) + 1
    BY <1>5, <1>7, FS_AddElement
  <2>4. Cardinality(TookAny) \in Nat /\ Cardinality(Refunded(r)) \in Nat
    BY <1>7, FS_CardinalityType
  <2>5. Net(limit') = Cardinality(TookAny') - Cardinality(Refunded(r))
    BY <2>1, <2>2, <2>3, <2>4
  <2> QED
    BY <1>11, <2>5, OthersClose
<1> QED
  BY <1>10, <1>12

(* The roll-back gives back the place that the check took.                 *)
LEMMA RollBackIsCovered ==
    ASSUME TypeOK, RunsAccounted, OnlyCountedCount, RequestsInOrder, CopiesCurrent,
           [Next]_vars, TypeOK', NoRetries, NEW b \in Campaigns, RollBack(b),
           NEW own \in 1..MaxDay, own = request[b].day,
           NEW r \in [Campaigns -> 0..MaxDay], Covered(r), Exact(r)
    PROVE  Covered(r)' /\ Exact(r)'
<1>1. /\ request \in [Campaigns -> [pc : RequestPCs, day : 1..MaxDay]]
      /\ limit \in [1..MaxDay -> Int]
  BY DEF TypeOK, RequestsOK, KeysOK
<1>2. /\ request[b].pc = "over" /\ request'[b].pc = "rejected"
      /\ request'[b].day = own /\ campaigns[b].status = "none"
      /\ UNCHANGED <<campaigns, drainer, faults>>
      /\ limit' = [limit EXCEPT ![own] = @ - 1]
      /\ \A c \in Campaigns \ {b} : request'[c] = request[c]
  BY <1>1 DEF RollBack, RequestStep, tables, serviceUnchanged, RequestsInOrder, RowAfterCheck
<1>3. /\ Charged(b) /\ ~Charged(b)'
      /\ \A c \in Campaigns \ {b} : Charged(c)' <=> Charged(c)
  BY <1>2 DEF Charged
<1>4. Took(own)' = Took(own) \ {b} /\ b \in Took(own)
  BY <1>2, <1>3 DEF Took
<1>5. ASSUME NEW day, day # own
      PROVE  Took(day)' = Took(day)
  BY <1>2, <1>3, <1>5 DEF Took
<1>6. ASSUME NEW day
      PROVE  Admitted(day)' = Admitted(day)
  <2>1. b \notin Admitted(day) /\ b \notin Took(day)'
    BY <1>2, <1>3 DEF Admitted, Took
  <2>2. \A c \in Campaigns \ {b} : c \in Took(day)' <=> c \in Took(day)
    BY <1>2, <1>3 DEF Took
  <2>3. \A c \in Campaigns \ {b} : c \in Admitted(day)' <=> c \in Admitted(day)
    BY <1>2, <2>2 DEF Admitted
  <2>4. Admitted(day) \subseteq Campaigns /\ Admitted(day)' \subseteq Campaigns \ {b}
    BY <2>1 DEF Admitted, Took
  <2> QED
    BY <2>1, <2>3, <2>4
<1>7. TookAny' = TookAny \ {b} /\ b \in TookAny
  BY <1>3 DEF TookAny
<1>8. /\ IsFiniteSet(TookAny) /\ IsFiniteSet(Refunded(r))
      /\ \A day : IsFiniteSet(Took(day))
      /\ \A day \in 1..MaxDay : IsFiniteSet(RefundedOn(r, day))
  BY ChargesFinite DEF Covered
<1>9. /\ limit'[own] = limit[own] - 1 /\ limit[own] \in Int
      /\ \A day \in (1..MaxDay) \ {own} : limit'[day] = limit[day]
  BY <1>1, <1>2
<1>10. ASSUME NEW day \in 1..MaxDay
       PROVE  /\ Cardinality(Took(day)') <= limit'[day] + Cardinality(RefundedOn(r, day))
              /\ Cardinality(Admitted(day)')
                     <= DailyLimit + Cardinality(RefundedOn(r, day))
  <2>1. /\ Cardinality(Took(day)) <= limit[day] + Cardinality(RefundedOn(r, day))
        /\ Cardinality(Admitted(day)) <= DailyLimit + Cardinality(RefundedOn(r, day))
    BY DEF Covered
  <2>2. CASE day # own
    BY <1>5, <1>6, <1>9, <2>1, <2>2
  <2>3. CASE day = own
    <3>1. Cardinality(Took(own)') = Cardinality(Took(own)) - 1
      BY <1>4, <1>8, FS_RemoveElement
    <3>2. Cardinality(Took(own)) \in Nat /\ Cardinality(RefundedOn(r, own)) \in Nat
      BY <1>8, FS_CardinalityType
    <3>3. Cardinality(Took(own)') <= limit'[own] + Cardinality(RefundedOn(r, own))
      BY <1>9, <2>1, <2>3, <3>1, <3>2
    <3> QED
      BY <1>6, <2>1, <2>3, <3>3
  <2> QED
    BY <2>2, <2>3
<1>11. Covered(r)'
  BY <1>10, RefundedStay DEF Covered, Refunded, RefundedOn
<1>12. \A d \in Drainers : ~Refund(d)
  BY <1>2 DEF Refund, DrainDone, IdleDrainer, TypeOK, DrainersOK
<1>13. Exact(r)'
  <2> SUFFICES ASSUME faults' = 0
               PROVE  /\ Net(limit') = Cardinality(TookAny') - Cardinality(Refunded(r))
                      /\ Viewers = {} => \A c \in Campaigns :
                            EmptyDone(c)' => c \in Refunded(r) \/ Closing(c)'
    BY DEF Exact, Refunded
  <2>1. Net(limit) = Cardinality(TookAny) - Cardinality(Refunded(r))
    BY FaultsStay DEF Exact
  <2>2. Net(limit') = Net(limit) - 1
    <3>1. Net(limit') = Net(limit) + (limit'[own] - limit[own]) /\ Net(limit) \in Int
      BY <1>9, OneCounter
    <3> QED
      BY <1>9, <3>1
  <2>3. Cardinality(TookAny') = Cardinality(TookAny) - 1
    BY <1>7, <1>8, FS_RemoveElement
  <2>4. Cardinality(TookAny) \in Nat /\ Cardinality(Refunded(r)) \in Nat
    BY <1>8, FS_CardinalityType
  <2>5. Net(limit') = Cardinality(TookAny') - Cardinality(Refunded(r))
    BY <2>1, <2>2, <2>3, <2>4
  <2> QED
    BY <1>12, <2>5, OthersClose
<1> QED
  BY <1>11, <1>13

(* A refund is entered under the day on which it is made.                  *)
LEMMA RefundIsCovered ==
    ASSUME \A e, f \in Drainers : e = f,
           TypeOK, NothingBeforeAccepted, RunsAccounted, OnlyCountedCount,
           RequestsInOrder, CopiesTrue, CopiesCurrent, [Next]_vars, TypeOK', NoRetries,
           NEW d \in Drainers, Refund(d), NEW b \in Campaigns, b = MessageCampaign(d),
           NEW now \in 1..MaxDay, now = today,
           NEW r \in [Campaigns -> 0..MaxDay], Covered(r), Exact(r),
           NEW q \in [Campaigns -> 0..MaxDay], q = [r EXCEPT ![b] = now]
    PROVE  Covered(q)' /\ Exact(q)'
<1>1. /\ limit \in [1..MaxDay -> Int] /\ drainer \in [Drainers -> DrainerStates]
      /\ drainer[d].pc = "refund" /\ drainer'[d].pc = "idle"
      /\ limit' = [limit EXCEPT ![now] = @ - 1]
      /\ UNCHANGED <<campaigns, request, faults>>
  BY DEF TypeOK, KeysOK, DrainersOK, Refund, DrainDone, IdleDrainer, tables, drainUnchanged
<1>2. EmptyDone(b)
  BY <1>1 DEF CopiesTrue, Refunding, NoRetries
<1>3. Closing(b) /\ b \notin Refunded(r)
  BY <1>1 DEF Closing, AfterCount, Covered
<1>4. request[b].day <= now
  BY DEF RequestsInOrder, RowAfterCheck
<1>5. ASSUME NEW c \in Campaigns
      PROVE  (EmptyDone(c)' <=> EmptyDone(c)) /\ ~Closing(c)'
  BY <1>1 DEF EmptyDone, Closing, AfterCount
<1>6. /\ Refunded(q) = Refunded(r) \cup {b}
      /\ RefundedOn(q, now) = RefundedOn(r, now) \cup {b}
      /\ b \notin RefundedOn(r, now)
      /\ \A day \in (1..MaxDay) \ {now} : RefundedOn(q, day) = RefundedOn(r, day)
  BY <1>3 DEF Refunded, RefundedOn
<1>7. TookAny' = TookAny /\ \A day : Took(day)' = Took(day) /\ Admitted(day)' = Admitted(day)
  BY <1>1 DEF TookAny, Took, Admitted, Charged
<1>8. /\ IsFiniteSet(TookAny) /\ IsFiniteSet(Refunded(r))
      /\ \A day : IsFiniteSet(Took(day)) /\ IsFiniteSet(Admitted(day))
      /\ \A day \in 1..MaxDay : IsFiniteSet(RefundedOn(r, day))
  BY ChargesFinite DEF Covered
<1>9. /\ limit'[now] = limit[now] - 1 /\ limit[now] \in Int
      /\ \A day \in (1..MaxDay) \ {now} : limit'[day] = limit[day]
      /\ DailyLimit \in Nat
  BY <1>1, BoundsAssumption
<1>10. ASSUME NEW day \in 1..MaxDay
       PROVE  /\ Cardinality(Took(day)') <= limit'[day] + Cardinality(RefundedOn(q, day))
              /\ Cardinality(Admitted(day)')
                     <= DailyLimit + Cardinality(RefundedOn(q, day))
  <2>1. /\ Cardinality(Took(day)) <= limit[day] + Cardinality(RefundedOn(r, day))
        /\ Cardinality(Admitted(day)) <= DailyLimit + Cardinality(RefundedOn(r, day))
    BY DEF Covered
  <2>2. CASE day # now
    BY <1>6, <1>7, <1>9, <2>1, <2>2
  <2>3. CASE day = now
    <3>1. Cardinality(RefundedOn(q, now)) = Cardinality(RefundedOn(r, now)) + 1
      <4> DEFINE S == RefundedOn(r, now)
      <4>1. IsFiniteSet(S) /\ b \notin S /\ RefundedOn(q, now) = S \cup {b}
        BY <1>6, <1>8
      <4> HIDE DEF S
      <4>2. Cardinality(S \cup {b}) = Cardinality(S) + 1
        BY <4>1, FS_AddElement
      <4> QED
        BY <4>1, <4>2 DEF S
    <3>2. /\ Cardinality(Took(now)) \in Nat /\ Cardinality(Admitted(now)) \in Nat
          /\ Cardinality(RefundedOn(r, now)) \in Nat
      BY <1>8, FS_CardinalityType
    <3>3. Cardinality(Took(now)') <= limit'[now] + Cardinality(RefundedOn(q, now))
      BY <1>7, <1>9, <2>1, <2>3, <3>1, <3>2
    <3>4. Cardinality(Admitted(now)') <= DailyLimit + Cardinality(RefundedOn(q, now))
      BY <1>7, <1>9, <2>1, <2>3, <3>1, <3>2
    <3> QED
      BY <2>3, <3>3, <3>4
  <2> QED
    BY <2>2, <2>3
<1>11. ASSUME NEW c \in Refunded(q)
       PROVE  EmptyDone(c)' /\ ~Closing(c)' /\ request'[c].day <= q[c]
  <2>1. CASE c = b
    BY <1>1, <1>2, <1>4, <1>5, <2>1
  <2>2. CASE c # b
    <3>1. c \in Refunded(r) /\ c \in Campaigns /\ q[c] = r[c]
      BY <1>6, <2>2 DEF Refunded
    <3> QED
      BY <1>1, <1>5, <3>1 DEF Covered
  <2> QED
    BY <2>1, <2>2
<1>12. Covered(q)'
  BY <1>10, <1>11 DEF Covered, Refunded, RefundedOn
<1>13. Exact(q)'
  <2> SUFFICES ASSUME faults' = 0
               PROVE  /\ Net(limit') = Cardinality(TookAny') - Cardinality(Refunded(q))
                      /\ Viewers = {} => \A c \in Campaigns :
                            EmptyDone(c)' => c \in Refunded(q) \/ Closing(c)'
    BY DEF Exact, Refunded
  <2>1. /\ Net(limit) = Cardinality(TookAny) - Cardinality(Refunded(r))
        /\ Viewers = {} => \A c \in Campaigns :
              EmptyDone(c) => c \in Refunded(r) \/ Closing(c)
    BY FaultsStay DEF Exact
  <2>2. Net(limit') = Net(limit) - 1
    <3>1. Net(limit') = Net(limit) + (limit'[now] - limit[now]) /\ Net(limit) \in Int
      BY <1>9, OneCounter
    <3> QED
      BY <1>9, <3>1
  <2>3. Cardinality(Refunded(q)) = Cardinality(Refunded(r)) + 1
    <3> DEFINE S == Refunded(r)
    <3>1. IsFiniteSet(S) /\ b \notin S /\ Refunded(q) = S \cup {b}
      BY <1>3, <1>6, <1>8
    <3> HIDE DEF S
    <3>2. Cardinality(S \cup {b}) = Cardinality(S) + 1
      BY <3>1, FS_AddElement
    <3> QED
      BY <3>1, <3>2 DEF S
  <2>4. Cardinality(TookAny) \in Nat /\ Cardinality(Refunded(r)) \in Nat
    BY <1>8, FS_CardinalityType
  <2>5. Net(limit') = Cardinality(TookAny') - Cardinality(Refunded(q))
    BY <1>7, <2>1, <2>2, <2>3, <2>4
  <2>6. ASSUME NEW c \in Campaigns, Closing(c)
        PROVE  c = b
    BY <2>6 DEF Closing
  <2> QED
    BY <1>5, <1>6, <2>1, <2>5, <2>6
<1> QED
  BY <1>12, <1>13

(* The refunds can be told apart at all times: the counters cover what was *)
(* taken from them, and are exact as long as nothing fails.                *)
LEMMA RefundsAreCovered ==
    ASSUME \A d, e \in Drainers : d = e
    PROVE  Spec => []RefundsCovered
<1>1. Init => RefundsCovered
  <2> SUFFICES ASSUME Init
               PROVE  \E r \in [Campaigns -> 0..MaxDay] : Covered(r) /\ Exact(r)
    BY DEF RefundsCovered
  <2> DEFINE r == [c \in Campaigns |-> 0]
  <2>1. r \in [Campaigns -> 0..MaxDay] /\ Refunded(r) = {}
    BY BoundsAssumption DEF Refunded
  <2>2. /\ \A c \in Campaigns : ~Charged(c) /\ ~EmptyDone(c)
        /\ limit \in [1..MaxDay -> Int] /\ \A day \in 1..MaxDay : limit[day] = 0
    BY DEF Init, Charged, EmptyDone
  <2>3. TookAny = {} /\ \A day : Took(day) = {} /\ Admitted(day) = {}
    BY <2>2 DEF TookAny, Took, Admitted
  <2>4. \A day \in 1..MaxDay : RefundedOn(r, day) = {}
    BY <2>1 DEF RefundedOn, Refunded
  <2>5. Cardinality({}) = 0 /\ DailyLimit \in Nat
    BY FS_EmptySet, BoundsAssumption
  <2>6. Net(limit) = 0
    BY <2>2, NetOfZero
  <2> HIDE DEF r
  <2>7. Covered(r)
    <3>1. ASSUME NEW day \in 1..MaxDay
          PROVE  /\ Cardinality(Took(day)) <= limit[day] + Cardinality(RefundedOn(r, day))
                 /\ Cardinality(Admitted(day))
                        <= DailyLimit + Cardinality(RefundedOn(r, day))
      <4>1. /\ Cardinality(Took(day)) = 0 /\ Cardinality(Admitted(day)) = 0
            /\ Cardinality(RefundedOn(r, day)) = 0 /\ limit[day] = 0
        BY <2>2, <2>3, <2>4, <2>5
      <4> QED
        BY <2>5, <4>1
    <3> QED
      BY <2>1, <3>1 DEF Covered
  <2>8. Exact(r)
    BY <2>1, <2>2, <2>3, <2>5, <2>6 DEF Exact
  <2> QED
    BY <2>1, <2>7, <2>8
<1>2. ASSUME TypeOK, TypeOK', NothingBeforeAccepted, RunsAccounted, OnlyCountedCount,
             RequestsInOrder, CopiesTrue, CopiesCurrent, RefundsCovered, [Next]_vars
      PROVE  RefundsCovered'
  <2> SUFFICES ASSUME NoRetries'
               PROVE  \E q \in [Campaigns -> 0..MaxDay] : Covered(q)' /\ Exact(q)'
    BY DEF RefundsCovered
  <2>1. NoRetries
    BY <1>2, NeverWasRequeued DEF NoRetries
  <2>2. PICK r \in [Campaigns -> 0..MaxDay] : Covered(r) /\ Exact(r)
    BY <1>2, <2>1 DEF RefundsCovered
  <2>3. PICK now \in 1..MaxDay : now = today
    BY <1>2 DEF TypeOK, KeysOK
  <2>4. ASSUME NEW b \in Campaigns, CheckLimit(b)
        PROVE  Covered(r)' /\ Exact(r)'
    BY <1>2, <2>1, <2>2, <2>3, <2>4, CheckIsCovered
  <2>5. ASSUME NEW b \in Campaigns, RollBack(b)
        PROVE  Covered(r)' /\ Exact(r)'
    <3>1. PICK own \in 1..MaxDay : own = request[b].day
      BY <1>2 DEF TypeOK, RequestsOK
    <3> QED
      BY <1>2, <2>1, <2>2, <2>5, <3>1, RollBackIsCovered
  <2>6. ASSUME NEW d \in Drainers, Refund(d)
        PROVE  \E q \in [Campaigns -> 0..MaxDay] : Covered(q)' /\ Exact(q)'
    <3>1. PICK b \in Campaigns : b = MessageCampaign(d)
      BY <1>2, <2>6, DrainedAreAccepted DEF Refund
    <3>2. PICK q \in [Campaigns -> 0..MaxDay] : q = [r EXCEPT ![b] = now]
      <4>1. [r EXCEPT ![b] = now] \in [Campaigns -> 0..MaxDay]
        OBVIOUS
      <4> QED
        BY <4>1
    <3>3. Covered(q)' /\ Exact(q)'
      BY <1>2, <2>1, <2>2, <2>3, <2>6, <3>1, <3>2, RefundIsCovered
    <3> QED
      BY <3>3
  <2>7. ASSUME UNCHANGED limit, \A c \in Campaigns : Calm(c)
        PROVE  Covered(r)' /\ Exact(r)'
    <3>1. \A d \in Drainers : ~Refund(d)
      <4>1. limit \in [1..MaxDay -> Int] /\ today \in 1..MaxDay
        BY <1>2 DEF TypeOK, KeysOK
      <4>2. limit[today] # limit[today] - 1
        BY <4>1
      <4> QED
        BY <2>7, <4>1, <4>2 DEF Refund
    <3> QED
      BY <1>2, <2>1, <2>2, <2>7, <3>1, CalmIsCovered
  <2> QED
    BY <1>2, <2>2, <2>4, <2>5, <2>6, <2>7, OtherStepsAreCalm
<1> QED
  BY <1>1, <1>2, TypeCorrect, NothingRunsBeforeAccepted, RunsAreAccounted,
     CountOnlyCounted, OrderHolds, CopiesStayTrue, CopiesStayCurrent, PTL DEF Spec

-----------------------------------------------------------------------------
(***************************************************************************)
(* What users and administrators see.                                      *)
(***************************************************************************)

(* POST /campaigns: with one API instance and as long as no job is         *)
(* requeued, a day is charged at most the limit and the empty campaigns    *)
(* that earlier days left to it, however the creations, the failures of    *)
(* their handlers, the refunds and the readers of the cache interleave.    *)
THEOREM DailyLimitIsKept ==
    ASSUME \A d, e \in Drainers : d = e
    PROVE  Spec => [](NoRetries => DailyLimitHoldsUpToCarryOver)
<1>1. ASSUME TypeOK, RequestsInOrder, RefundsCovered, NoRetries, NEW day \in 1..MaxDay
      PROVE  Cardinality(ChargedTo(day)) <= DailyLimit
                 + Cardinality({c \in Campaigns : /\ request[c].day < day
                                                  /\ campaigns[c].status = "completed"
                                                  /\ campaigns[c].leads = 0})
  <2>1. PICK r \in [Campaigns -> 0..MaxDay] : Covered(r)
    BY <1>1 DEF RefundsCovered
  <2> DEFINE Own == {c \in RefundedOn(r, day) : request[c].day = day}
             Carried == RefundedOn(r, day) \ Own
             Early == {c \in Campaigns : /\ request[c].day < day
                                         /\ campaigns[c].status = "completed"
                                         /\ campaigns[c].leads = 0}
  <2>2. \A c \in Campaigns : campaigns[c].status # "none" => request[c].pc # "over"
    BY <1>1 DEF RequestsInOrder, RowAfterCheck
  <2>3. ASSUME NEW c \in RefundedOn(r, day)
        PROVE  /\ c \in Campaigns /\ campaigns[c].status = "completed"
               /\ campaigns[c].leads = 0 /\ request[c].day <= day
    BY <2>1, <2>3 DEF RefundedOn, Refunded, Covered, EmptyDone
  <2>4. ChargedTo(day) \cup Own \subseteq Admitted(day)
    BY <2>2, <2>3 DEF ChargedTo, Admitted, Took, Charged
  <2>5. ChargedTo(day) \cap Own = {}
    BY <2>3 DEF ChargedTo
  <2>6. Carried \subseteq Early
    <3>1. \A c \in Campaigns : request[c].day \in Nat
      BY <1>1 DEF TypeOK, RequestsOK
    <3> QED
      BY <2>3, <3>1
  <2>7. Early \subseteq Begun
    BY <1>1 DEF RequestsInOrder, RowAfterCheck, Begun
  <2>8. Own \cup Carried = RefundedOn(r, day) /\ Own \cap Carried = {}
    OBVIOUS
  <2>9. IsFiniteSet(Admitted(day)) /\ IsFiniteSet(RefundedOn(r, day))
    BY <1>1, <2>1, ChargesFinite DEF Covered
  <2>10. Cardinality(Admitted(day)) <= DailyLimit + Cardinality(RefundedOn(r, day))
    BY <2>1 DEF Covered
  <2>11. Own \subseteq RefundedOn(r, day) /\ Carried \subseteq RefundedOn(r, day)
    OBVIOUS
  <2> HIDE DEF Own, Carried, Early
  <2>12. /\ IsFiniteSet(Own) /\ IsFiniteSet(Carried) /\ IsFiniteSet(Early)
         /\ IsFiniteSet(ChargedTo(day))
    BY <1>1, <2>4, <2>7, <2>9, <2>11, FS_Subset DEF RequestsInOrder
  <2>13. Cardinality(ChargedTo(day)) + Cardinality(Own) <= Cardinality(Admitted(day))
    <3>1. Cardinality(ChargedTo(day) \cup Own)
              = Cardinality(ChargedTo(day)) + Cardinality(Own) - Cardinality({})
      BY <2>5, <2>12, FS_Union
    <3>2. Cardinality(ChargedTo(day) \cup Own) <= Cardinality(Admitted(day))
      BY <2>4, <2>9, FS_Subset
    <3>3. Cardinality({}) = 0 /\ Cardinality(ChargedTo(day)) \in Nat /\ Cardinality(Own) \in Nat
      BY <2>12, FS_EmptySet, FS_CardinalityType
    <3> QED
      BY <3>1, <3>2, <3>3
  <2>14. Cardinality(RefundedOn(r, day)) = Cardinality(Own) + Cardinality(Carried)
    <3>1. Cardinality(Own \cup Carried)
              = Cardinality(Own) + Cardinality(Carried) - Cardinality({})
      BY <2>8, <2>12, FS_Union
    <3>2. Cardinality({}) = 0 /\ Cardinality(Carried) \in Nat /\ Cardinality(Own) \in Nat
      BY <2>12, FS_EmptySet, FS_CardinalityType
    <3>3. Cardinality(Own \cup Carried) = Cardinality(Own) + Cardinality(Carried)
      BY <3>1, <3>2
    <3> QED
      BY <2>8, <3>3
  <2>15. Cardinality(Carried) <= Cardinality(Early)
    BY <2>6, <2>12, FS_Subset
  <2>16. /\ Cardinality(ChargedTo(day)) \in Nat /\ Cardinality(Own) \in Nat
         /\ Cardinality(Carried) \in Nat /\ Cardinality(Early) \in Nat
         /\ Cardinality(Admitted(day)) \in Nat /\ DailyLimit \in Nat
    BY <2>9, <2>12, FS_CardinalityType, BoundsAssumption
  <2>17. Cardinality(ChargedTo(day)) <= DailyLimit + Cardinality(Early)
    BY <2>10, <2>13, <2>14, <2>15, <2>16
  <2> QED
    BY <2>17 DEF Early
<1>2. TypeOK /\ RequestsInOrder /\ RefundsCovered
          => (NoRetries => DailyLimitHoldsUpToCarryOver)
  BY <1>1 DEF DailyLimitHoldsUpToCarryOver
<1> QED
  BY <1>2, TypeCorrect, OrderHolds, RefundsAreCovered, PTL

(* LeadRecovery.drainJobStatus: with one API instance, whenever nothing is *)
(* under way and nothing failed or was requeued, the Redis counters hold   *)
(* at least the campaigns charged to them, and without readers of the      *)
(* cache exactly those: no campaign is refunded twice, none with leads.    *)
THEOREM RefundsAreAccounted ==
    ASSUME \A d, e \in Drainers : d = e
    PROVE  Spec => []RefundsAccounted
<1>1. ASSUME TypeOK, RequestsInOrder, RefundsCovered, faults = 0,
             \A c \in Campaigns : /\ request[c].pc \in {"new", "accepted", "rejected"}
                                  /\ NeverRequeued(c),
             \A d \in Drainers : drainer[d].pc = "idle"
      PROVE  LET charged == Cardinality(UNION {ChargedTo(day) : day \in 1..MaxDay})
             IN  /\ Net(limit) >= charged
                 /\ Viewers = {} => Net(limit) = charged
  <2>1. NoRetries
    BY <1>1 DEF NoRetries
  <2>2. PICK r \in [Campaigns -> 0..MaxDay] : Covered(r) /\ Exact(r)
    BY <1>1, <2>1 DEF RefundsCovered
  <2> DEFINE Paid == UNION {ChargedTo(day) : day \in 1..MaxDay}
             Empty == {c \in Campaigns : EmptyDone(c)}
  <2>3. ASSUME NEW c \in Campaigns
        PROVE  /\ c \in TookAny <=> campaigns[c].status # "none"
               /\ c \in Paid <=> /\ campaigns[c].status # "none"
                                 /\ campaigns[c].status = "active" \/ campaigns[c].leads > 0
               /\ c \in Empty <=> campaigns[c].status = "completed" /\ campaigns[c].leads = 0
               /\ campaigns[c].status \in {"none", "active", "completed"}
               /\ campaigns[c].leads \in Nat
               /\ campaigns[c].status = "active" => campaigns[c].status # "completed"
    <3>1. request[c].day \in 1..MaxDay /\ campaigns[c] \in CampaignRows
      BY <1>1 DEF TypeOK, RequestsOK, CampaignsOK
    <3>2. c \in TookAny <=> campaigns[c].status # "none"
      BY <1>1 DEF TookAny, Charged
    <3>3. c \in Paid <=> c \in ChargedTo(request[c].day)
      BY <3>1 DEF ChargedTo
    <3>4. c \in Paid <=> /\ campaigns[c].status # "none"
                         /\ campaigns[c].status = "active" \/ campaigns[c].leads > 0
      BY <3>3 DEF ChargedTo
    <3> QED
      BY <3>1, <3>2, <3>4 DEF CampaignRows, CampaignStatuses, EmptyDone
  <2>4. TookAny \subseteq Campaigns /\ Paid \subseteq Campaigns /\ Empty \subseteq Campaigns
    BY DEF TookAny, ChargedTo
  <2>5. Refunded(r) \subseteq Empty
    BY <2>2 DEF Covered, Refunded
  <2>6. Viewers = {} => Empty \subseteq Refunded(r)
    <3>1. \A c \in Campaigns : ~Closing(c)
      BY <1>1 DEF Closing, AfterCount
    <3> QED
      BY <1>1, <2>2, <3>1 DEF Exact
  <2>7. Net(limit) = Cardinality(TookAny) - Cardinality(Refunded(r))
    BY <1>1, <2>2 DEF Exact
  <2>8. IsFiniteSet(TookAny) /\ IsFiniteSet(Refunded(r))
    BY <1>1, <2>2, ChargesFinite DEF Covered
  <2> HIDE DEF Paid, Empty
  <2>9. TookAny = Paid \cup Empty
    <3>1. \A c \in Campaigns : c \in TookAny <=> c \in Paid \/ c \in Empty
      BY <2>3
    <3> QED
      BY <2>4, <3>1
  <2>10. Paid \cap Empty = {}
    BY <2>3, <2>4
  <2>11. IsFiniteSet(Paid) /\ IsFiniteSet(Empty)
    BY <2>8, <2>9, FS_Subset
  <2>12. Cardinality(TookAny) = Cardinality(Paid) + Cardinality(Empty)
    <3>1. Cardinality(TookAny) = Cardinality(Paid) + Cardinality(Empty) - Cardinality({})
      BY <2>9, <2>10, <2>11, FS_Union
    <3>2. Cardinality({}) = 0 /\ Cardinality(Paid) \in Nat /\ Cardinality(Empty) \in Nat
      BY <2>11, FS_EmptySet, FS_CardinalityType
    <3> QED
      BY <3>1, <3>2
  <2>13. /\ Cardinality(Refunded(r)) <= Cardinality(Empty)
         /\ Cardinality(Refunded(r)) \in Nat /\ Cardinality(Empty) \in Nat
         /\ Cardinality(Paid) \in Nat
    BY <2>5, <2>8, <2>11, FS_Subset, FS_CardinalityType
  <2>14. Net(limit) >= Cardinality(Paid)
    BY <2>7, <2>12, <2>13
  <2>15. Viewers = {} => Net(limit) = Cardinality(Paid)
    <3>1. Viewers = {} => Refunded(r) = Empty
      BY <2>5, <2>6
    <3> QED
      BY <2>7, <2>12, <2>13, <3>1
  <2> QED
    BY <2>14, <2>15 DEF Paid
<1>2. TypeOK /\ RequestsInOrder /\ RefundsCovered => RefundsAccounted
  BY <1>1 DEF RefundsAccounted
<1> QED
  BY <1>2, TypeCorrect, OrderHolds, RefundsAreCovered, PTL
=============================================================================
