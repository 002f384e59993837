----------------------------- MODULE LeadIngest -----------------------------
(***************************************************************************)
(* How lead batches become rows: LeadRecovery.drainLeads takes a batch     *)
(* from the Redis list lead_batches, LeadService.ProcessBatch looks every  *)
(* lead up by its contacts, merges the known ones into their row, inserts  *)
(* the others (one INSERT after the other; if one fails, all of them once  *)
(* more), and a batch of which nothing was stored is queued again.         *)
(* One action per call to Redis or Postgres; several API instances drain   *)
(* the same list.                                                          *)
(***************************************************************************)
EXTENDS Integers, Sequences, FiniteSets, SequencesExt

CONSTANTS
    Leads,             \* leads as scraped (models.RawLead)
    ContactsOf,        \* a lead's normalised phone, e-mail and domain
    Unstorable,        \* leads whose INSERT Postgres always refuses
    Batches,           \* payloads the scraper pushes to lead_batches
    LeadsOf,           \* the leads of a batch, in order
    SourceOf,          \* the scraper a batch comes from
    Drainers,          \* one drainLeads loop per running API instance
    MaxRetryAttempts,  \* maxRetryAttempts of lead_recovery.go (3)
    MaxPushes,         \* bound: pushes of each batch (a retried job repeats it)
    MaxFaults,         \* bound: failed calls
    MaxExits,          \* bound: exits of an API process
    None               \* "no batch in hand"

ASSUME BatchesAssumption ==
    /\ IsFiniteSet(Leads) /\ Unstorable \subseteq Leads
    /\ LeadsOf \in [Batches -> Seq(Leads) \ {<<>>}]
    /\ \E b \in Batches : \A a \in Batches : Len(LeadsOf[a]) <= Len(LeadsOf[b])
    /\ DOMAIN ContactsOf = Leads /\ DOMAIN SourceOf = Batches

ASSUME IngestBoundsAssumption ==
    /\ MaxRetryAttempts \in Nat /\ MaxPushes \in [Batches -> Nat]
    /\ MaxFaults \in Nat /\ MaxExits \in Nat

VARIABLES
    rows,     \* table leads: the number of rows each lead has become
    sources,  \* column source of these rows
    queue,    \* Redis list lead_batches with the retry envelopes' counters
    pushes,   \* how often the scraper has pushed each batch
    drainer,  \* the drain loops
    faults, exits

vars == <<rows, sources, queue, pushes, drainer, faults, exits>>

-----------------------------------------------------------------------------
AllSources == {SourceOf[b] : b \in Batches}

Items == [batch : Batches, try : Nat]

(* left: the leads the current loop has still to visit; found: the row     *)
(* FindDuplicate returned; the three counters are the result.              *)
DrainerStates ==
    [pc : {"idle", "find", "merge", "insert", "fallback", "settle"},
     item : Items \cup {None}, left : Seq(Leads), toInsert : Seq(Leads),
     found : SUBSET Leads, inserted : Nat, merged : Nat, skipped : Nat]

IdleDrainer == [pc |-> "idle", item |-> None, left |-> <<>>, toInsert |-> <<>>,
                found |-> {}, inserted |-> 0, merged |-> 0, skipped |-> 0]

(* A loop that stands at a lead has one, and a batch to put it in.         *)
DrainerOK(s) ==
    /\ s \in DrainerStates
    /\ s.pc # "idle" => s.item \in Items
    /\ s.pc \in {"find", "merge", "insert", "fallback"} => s.left # <<>>
    /\ s.pc = "merge" => s.found # {}
    /\ s.pc = "insert" => s.toInsert # <<>>

(* Every variable has its type, and no step is reached without its data.   *)
IngestTypeOK ==
    /\ rows \in [Leads -> Nat]
    /\ sources \in [Leads -> SUBSET AllSources]
    /\ queue \in Seq(Items)
    /\ pushes \in [Batches -> Nat]
    /\ drainer \in [Drainers -> DrainerStates]
    /\ \A d \in Drainers : DrainerOK(drainer[d])
    /\ faults \in 0..MaxFaults /\ exits \in 0..MaxExits

Init ==
    /\ rows = [l \in Leads |-> 0]
    /\ sources = [l \in Leads |-> {}]
    /\ queue = <<>>
    /\ pushes = [b \in Batches |-> 0]
    /\ drainer = [d \in Drainers |-> IdleDrainer]
    /\ faults = 0 /\ exits = 0

IngestFault == faults < MaxFaults /\ faults' = faults + 1 /\ UNCHANGED exits
NoFault == UNCHANGED <<faults, exits>>

-----------------------------------------------------------------------------
(* The rows that have a contact of the lead: what FindDuplicate's query    *)
(* matches, and what the unique indexes on phone_e164, LOWER(email) and    *)
(* website_domain refuse to have twice.  None for a lead without contact.  *)
SameBusiness(l) ==
    {m \in Leads : rows[m] > 0 /\ ContactsOf[m] \cap ContactsOf[l] # {}}

(* Mutant: the table has no unique indexes.                                *)
RefusedWithoutIndexes(l) == l \in Unstorable

Refused(l) == l \in Unstorable \/ SameBusiness(l) # {}

Batch(d) == drainer[d].item.batch
Current(d) == Head(drainer[d].left)

At(d, pc) == drainer[d].pc = pc
Becomes(d, state) == drainer' = [drainer EXCEPT ![d] = state]

(* The first loop goes on to the next lead, to InsertBatch after the last  *)
(* one, or past it when there is nothing to insert.                        *)
NextLead(state) ==
    LET left == Tail(state.left)
    IN  IF left # <<>>
        THEN [state EXCEPT !.pc = "find", !.left = left, !.found = {}]
        ELSE [state EXCEPT !.pc = IF state.toInsert = <<>> THEN "settle" ELSE "insert",
                           !.left = state.toInsert, !.found = {},
                           !.inserted = Len(state.toInsert)]

(* Mutant: the loop goes one past the last lead.                           *)
NextInsertOnePast(state) ==
    IF state.left # <<>>
    THEN [state EXCEPT !.left = Tail(@)]
    ELSE [state EXCEPT !.pc = "settle", !.left = <<>>]

(* The insert loops go on to the next lead, or end.                        *)
NextInsert(state) ==
    IF Tail(state.left) # <<>>
    THEN [state EXCEPT !.left = Tail(@)]
    ELSE [state EXCEPT !.pc = "settle", !.left = <<>>]

(* Mutant: the error is logged, and the leads counted as inserted.         *)
NoFallBack(state) == [state EXCEPT !.pc = "settle", !.left = <<>>]

(* InsertBatch returned an error: "fall back to individual inserts".       *)
FallBack(state) ==
    [state EXCEPT !.pc = "fallback", !.left = state.toInsert, !.inserted = 0]

InsertRow(l, source) ==
    /\ rows' = [rows EXCEPT ![l] = @ + 1]
    /\ sources' = [sources EXCEPT ![l] = {source}]

NoRow == UNCHANGED <<rows, sources>>

-----------------------------------------------------------------------------
(* The runner pushes a batch, and once more if its job is retried.         *)
Push(b) ==
    /\ pushes[b] < MaxPushes[b]
    /\ pushes' = [pushes EXCEPT ![b] = @ + 1]
    /\ queue' = Append(queue, [batch |-> b, try |-> 0])
    /\ UNCHANGED <<rows, sources, drainer, faults, exits>>

DequeueBatch(d) ==
    /\ At(d, "idle") /\ queue # <<>>
    /\ queue' = Tail(queue)
    /\ Becomes(d, [IdleDrainer EXCEPT !.pc = "find", !.item = Head(queue),
                                      !.left = LeadsOf[Head(queue).batch]])
    /\ UNCHANGED <<rows, sources, pushes>> /\ NoFault

(* FindDuplicate: any one of the matching rows (LIMIT 1).                  *)
FindDuplicate(d) ==
    /\ At(d, "find")
    /\ \/ \E m \in SameBusiness(Current(d)) :
             Becomes(d, [drainer[d] EXCEPT !.pc = "merge", !.found = {m}])
       \/ /\ SameBusiness(Current(d)) = {}
          /\ Becomes(d, NextLead([drainer[d] EXCEPT !.toInsert = Append(@, Current(d))]))
    /\ NoRow /\ UNCHANGED <<queue, pushes>> /\ NoFault

(* The query fails: the lead is skipped.  Without a contact there is no    *)
(* query.                                                                  *)
FindFails(d) ==
    /\ IngestFault
    /\ At(d, "find") /\ ContactsOf[Current(d)] # {}
    /\ Becomes(d, NextLead([drainer[d] EXCEPT !.skipped = @ + 1]))
    /\ NoRow /\ UNCHANGED <<queue, pushes>>

MergeSources(d) ==
    /\ At(d, "merge")
    /\ sources' = [m \in Leads |-> IF m \in drainer[d].found
                                   THEN sources[m] \cup {SourceOf[Batch(d)]}
                                   ELSE sources[m]]
    /\ Becomes(d, NextLead([drainer[d] EXCEPT !.merged = @ + 1]))
    /\ UNCHANGED <<rows, queue, pushes>> /\ NoFault

(* The update fails: logged, and counted as merged all the same.           *)
MergeFails(d) ==
    /\ IngestFault
    /\ At(d, "merge")
    /\ Becomes(d, NextLead([drainer[d] EXCEPT !.merged = @ + 1]))
    /\ NoRow /\ UNCHANGED <<queue, pushes>>

(* One INSERT of InsertBatch; each row it inserted stays.                  *)
InsertBatch(d) ==
    /\ At(d, "insert")
    /\ IF Refused(Current(d))
       THEN Becomes(d, FallBack(drainer[d])) /\ NoRow
       ELSE Becomes(d, NextInsert(drainer[d]))
            /\ InsertRow(Current(d), SourceOf[Batch(d)])
    /\ UNCHANGED <<queue, pushes>> /\ NoFault

InsertBatchFails(d) ==
    /\ IngestFault
    /\ At(d, "insert")
    /\ Becomes(d, FallBack(drainer[d]))
    /\ NoRow /\ UNCHANGED <<queue, pushes>>

(* One INSERT of the fallback, whose failure skips the lead.               *)
Insert(d) ==
    /\ At(d, "fallback")
    /\ IF Refused(Current(d))
       THEN Becomes(d, NextInsert([drainer[d] EXCEPT !.skipped = @ + 1])) /\ NoRow
       ELSE Becomes(d, NextInsert([drainer[d] EXCEPT !.inserted = @ + 1]))
            /\ InsertRow(Current(d), SourceOf[Batch(d)])
    /\ UNCHANGED <<queue, pushes>> /\ NoFault

InsertFails(d) ==
    /\ IngestFault
    /\ At(d, "fallback")
    /\ Becomes(d, NextInsert([drainer[d] EXCEPT !.skipped = @ + 1]))
    /\ NoRow /\ UNCHANGED <<queue, pushes>>

(* Mutant: off by one, no batch is ever queued again.                      *)
MoreThanAllSkipped(d) ==
    /\ drainer[d].inserted = 0 /\ drainer[d].merged = 0
    /\ drainer[d].skipped > Len(LeadsOf[Batch(d)])

(* "If all leads were skipped due to errors, requeue".                     *)
NothingStored(d) ==
    /\ drainer[d].inserted = 0 /\ drainer[d].merged = 0
    /\ drainer[d].skipped = Len(LeadsOf[Batch(d)])

(* Mutant: the envelope's counter is not raised.                           *)
SettleBatchUncounted(d) ==
    /\ At(d, "settle")
    /\ queue' = IF NothingStored(d) /\ drainer[d].item.try < MaxRetryAttempts
                THEN Append(queue, drainer[d].item) ELSE queue
    /\ Becomes(d, IdleDrainer)
    /\ NoRow /\ UNCHANGED pushes /\ NoFault

(* The batch is done with, or requeue() puts it behind the others.         *)
SettleBatch(d) ==
    /\ At(d, "settle")
    /\ queue' = IF NothingStored(d) /\ drainer[d].item.try < MaxRetryAttempts
                THEN Append(queue, [drainer[d].item EXCEPT !.try = @ + 1])
                ELSE queue
    /\ Becomes(d, IdleDrainer)
    /\ NoRow /\ UNCHANGED pushes /\ NoFault

(* requeue() itself fails: the batch is dropped.                           *)
RequeueFails(d) ==
    /\ IngestFault
    /\ At(d, "settle") /\ NothingStored(d)
    /\ drainer[d].item.try < MaxRetryAttempts
    /\ Becomes(d, IdleDrainer)
    /\ NoRow /\ UNCHANGED <<queue, pushes>>

(* The API process exits: the batch was in its memory only.                *)
IngestStops(d) ==
    /\ exits < MaxExits /\ exits' = exits + 1
    /\ ~At(d, "idle")
    /\ Becomes(d, IdleDrainer)
    /\ NoRow /\ UNCHANGED <<queue, pushes, faults>>

DrainStep(d) ==
    \/ FindDuplicate(d) \/ MergeSources(d) \/ InsertBatch(d) \/ Insert(d)
    \/ SettleBatch(d)

DrainFails(d) ==
    \/ FindFails(d) \/ MergeFails(d) \/ InsertBatchFails(d) \/ InsertFails(d)
    \/ RequeueFails(d) \/ IngestStops(d)

Next ==
    \/ \E b \in Batches : Push(b)
    \/ \E d \in Drainers : DequeueBatch(d) \/ DrainStep(d) \/ DrainFails(d)

Spec == Init /\ [][Next]_vars

(* The scheduler starts the loop of every instance again and again, and a  *)
(* loop that runs makes its next call.                                     *)
FairSpec == Spec /\ \A d \in Drainers : WF_vars(DequeueBatch(d)) /\ WF_vars(DrainStep(d))

-----------------------------------------------------------------------------
(***************************************************************************)
(* Properties.                                                             *)
(***************************************************************************)

(* PLAN.md:501: a phone, an e-mail and a domain is in one row at most, and *)
(* two instances that looked a lead up before either inserted it still     *)
(* leave one row.                                                          *)
OneRowPerContact ==
    \A l, m \in Leads :
        /\ rows[l] > 0 /\ rows[m] > 0
        /\ ContactsOf[l] \cap ContactsOf[m] # {}
        => l = m /\ rows[l] = 1

(* The lead is still in a queued batch or in one that a loop has in hand.  *)
Underway(l) ==
    \/ \E i \in 1..Len(queue) : Contains(LeadsOf[queue[i].batch], l)
    \/ \E d \in Drainers : ~At(d, "idle") /\ Contains(LeadsOf[Batch(d)], l)

Stored(l) == rows[l] > 0 \/ SameBusiness(l) # {}

(* The leads that were pushed and are nowhere any more, unless Postgres    *)
(* would never have taken them.                                            *)
Pushed(l) == \E b \in Batches : pushes[b] > 0 /\ Contains(LeadsOf[b], l)

Lost == {l \in Leads \ Unstorable : Pushed(l) /\ ~Underway(l) /\ ~Stored(l)}

MaxBatch == Max({Len(LeadsOf[b]) : b \in Batches})

(* A failed call costs one lead at most, the exit of an API process one    *)
(* batch: neither the fallback, nor a conflict with another instance, nor  *)
(* a lead that Postgres refuses, nor the end of the retries takes the      *)
(* other leads of a batch along.                                           *)
LossesBounded == Cardinality(Lost) <= faults + MaxBatch * exits

(* A batch of one lead that lost the race for a contact is queued again    *)
(* and merged then: its source is not forgotten.                           *)
LoneSourcesKept ==
    faults + exits = 0 =>
        \A b \in Batches, l \in Leads \ Unstorable :
            /\ LeadsOf[b] = <<l>> /\ ContactsOf[l] # {}
            /\ pushes[b] > 0 /\ ~Underway(l)
            => \E m \in SameBusiness(l) : SourceOf[b] \in sources[m]

(* Whatever is refused, fails or conflicts, the list becomes empty and the *)
(* loops come to rest: no batch is queued for ever.                        *)
BatchesSettle == <>[](queue = <<>> /\ \A d \in Drainers : At(d, "idle"))
=============================================================================
