------------------------------ MODULE LeadRow -------------------------------
(***************************************************************************)
(* One row of the leads table and its cached copy "lead:<id>", shared by   *)
(* GET and PATCH /leads/{id}, the merges of the lead drain and the e-mail  *)
(* validators of the API instances.  PATCH writes back the whole row it    *)
(* read, which may have come from the cache; merges and validators write   *)
(* their own columns.  An update is followed by the removal of the cached  *)
(* copy, which may be lost.                                                *)
(***************************************************************************)
EXTENDS Naturals, FiniteSets

CONSTANTS
    Patchers, Readers,  \* clients: each sends one PATCH, or GETs
    Validators,         \* API instances running the validator
    Sources, First,     \* the sources of leads; the one the row came from
    Statuses,           \* valid statuses
    NoRow,              \* nothing cached
    MaxFaults           \* bound on failed updates

Clients == Patchers \cup Readers

(* pending: email_confidence <= 30 and email_valid.  The address itself is *)
(* never changed.                                                          *)
Rows == [status : Statuses, sources : SUBSET Sources,
         email : {"pending", "valid", "invalid"}]

ASSUME RowAssumption ==
    /\ First \in Sources /\ "new" \in Statuses /\ NoRow \notin Rows
    /\ Patchers \cap Readers = {} /\ MaxFaults \in Nat

VARIABLES
    row, cached,
    call,      \* what each client's request is doing, with its copy of the row
    checking,  \* validators between their query and their update
    removals,  \* removals of the cached copy still to come
    merged,    \* sources that came with a duplicate
    faults

vars == <<row, cached, call, checking, removals, merged, faults>>

Calls == [pc : {"idle", "load", "store", "have", "done"}, copy : Rows \cup {NoRow}]

Goes(c, pc, copy) == call' = [call EXCEPT ![c] = [pc |-> pc, copy |-> copy]]

Init ==
    /\ row = [status |-> "new", sources |-> {First}, email |-> "pending"]
    /\ cached = NoRow /\ removals = 0
    /\ call = [c \in Clients |-> [pc |-> "idle", copy |-> NoRow]]
    /\ checking = {} /\ merged = {First} /\ faults = 0

-----------------------------------------------------------------------------
(* Mutant of GetByID: nothing cached is taken for a copy.                  *)
GetByIDUnchecked(c) ==
    /\ call[c].pc = "idle" /\ Goes(c, "have", cached)
    /\ UNCHANGED <<row, cached, checking, removals, merged, faults>>

(* GetByID: redis.Fetch returns the cached copy or loads and stores one.   *)
GetByID(c) ==
    /\ call[c].pc = "idle"
    /\ IF cached # NoRow THEN Goes(c, "have", cached) ELSE Goes(c, "load", NoRow)
    /\ UNCHANGED <<row, cached, checking, removals, merged, faults>>

Load(c) ==
    /\ call[c].pc = "load" /\ Goes(c, "store", row)
    /\ UNCHANGED <<row, cached, checking, removals, merged, faults>>

Store(c) ==
    /\ call[c].pc = "store"
    /\ cached' = call[c].copy /\ Goes(c, "have", call[c].copy)
    /\ UNCHANGED <<row, checking, removals, merged, faults>>

Answer(c) ==
    /\ c \in Readers /\ call[c].pc = "have" /\ Goes(c, "idle", NoRow)
    /\ UNCHANGED <<row, cached, checking, removals, merged, faults>>

(* leadRepo.Update(existing): every column of the copy, with the status of *)
(* the request.                                                            *)
UpdateLead(c, status) ==
    /\ c \in Patchers /\ call[c].pc = "have"
    /\ row' = [call[c].copy EXCEPT !.status = status]
    /\ removals' = removals + 1
    /\ Goes(c, "done", NoRow)
    /\ UNCHANGED <<cached, checking, merged, faults>>

UpdateFails(c) ==
    /\ c \in Patchers /\ call[c].pc = "have" /\ faults < MaxFaults
    /\ faults' = faults + 1 /\ Goes(c, "done", NoRow)
    /\ UNCHANGED <<row, cached, checking, removals, merged>>

(* Mutant of MergeSources: the new source takes the place of the others.   *)
MergeSourcesReplaces(s) ==
    /\ s \notin merged /\ merged' = merged \cup {s}
    /\ row' = [row EXCEPT !.sources = {s}]
    /\ removals' = removals + 1
    /\ UNCHANGED <<cached, call, checking, faults>>

MergeSources(s) ==
    /\ s \notin merged /\ merged' = merged \cup {s}
    /\ row' = [row EXCEPT !.sources = @ \cup {s}]
    /\ removals' = removals + 1
    /\ UNCHANGED <<cached, call, checking, faults>>

(* The errors of redis.Remove are ignored.                                 *)
RemoveCached ==
    /\ removals > 0 /\ removals' = removals - 1
    /\ cached' \in {NoRow, cached}
    /\ UNCHANGED <<row, call, checking, merged, faults>>

(* Mutant of Expire: a copy that was never removed stays.                  *)
ExpireNever == FALSE /\ UNCHANGED vars

(* The time to live of the cached copy.                                    *)
Expire ==
    /\ cached # NoRow /\ cached' = NoRow
    /\ UNCHANGED <<row, call, checking, removals, merged, faults>>

-----------------------------------------------------------------------------
(* The validator's query and, CheckMX and CheckSMTP later, its update.     *)
Query(v) ==
    /\ v \notin checking /\ row.email = "pending"
    /\ checking' = checking \cup {v}
    /\ UNCHANGED <<row, cached, call, removals, merged, faults>>

(* Mutant of Validate: without an MX record only the confidence changes.   *)
ValidateKeeps(v, mxOK) ==
    /\ v \in checking /\ checking' = checking \ {v}
    /\ row' = IF mxOK THEN [row EXCEPT !.email = "valid"] ELSE row
    /\ removals' = removals + 1
    /\ UNCHANGED <<cached, call, merged, faults>>

(* email_valid becomes mxOK; with an MX record the confidence passes 30.   *)
Validate(v, mxOK) ==
    /\ v \in checking /\ checking' = checking \ {v}
    /\ row' = [row EXCEPT !.email = IF mxOK THEN "valid" ELSE "invalid"]
    /\ removals' = removals + 1
    /\ UNCHANGED <<cached, call, merged, faults>>

ValidateFails(v) ==
    /\ v \in checking /\ faults < MaxFaults
    /\ checking' = checking \ {v} /\ faults' = faults + 1
    /\ UNCHANGED <<row, cached, call, removals, merged>>

-----------------------------------------------------------------------------
Fetch(c) == GetByID(c) \/ Load(c) \/ Store(c) \/ Answer(c)

Next ==
    \/ \E c \in Clients :
          \/ Fetch(c) \/ UpdateFails(c)
          \/ \E status \in Statuses : UpdateLead(c, status)
    \/ \E s \in Sources : MergeSources(s)
    \/ RemoveCached \/ Expire
    \/ \E v \in Validators :
          \/ Query(v) \/ ValidateFails(v)
          \/ \E mxOK \in BOOLEAN : Validate(v, mxOK)

Spec == Init /\ [][Next]_vars

(* A request that has begun goes on, the validator is a cron job and a     *)
(* copy's time to live ends.                                               *)
FairSpec ==
    /\ Spec /\ WF_vars(RemoveCached)
    /\ \A c \in Clients :
          /\ WF_vars(Load(c) \/ Store(c) \/ Answer(c))
          /\ WF_vars(UpdateFails(c) \/ \E status \in Statuses : UpdateLead(c, status))
    /\ WF_vars(Expire)
    /\ \A v \in Validators :
          WF_vars(Query(v) \/ ValidateFails(v) \/ \E mxOK \in BOOLEAN : Validate(v, mxOK))

-----------------------------------------------------------------------------
RowTypeOK ==
    /\ row \in Rows /\ cached \in Rows \cup {NoRow}
    /\ call \in [Clients -> Calls]
    /\ \A c \in Clients : call[c].pc \in {"store", "have"} => call[c].copy \in Rows
    /\ checking \subseteq Validators /\ merged \subseteq Sources
    /\ removals \in Nat /\ faults \in 0..MaxFaults

(* A merged source, a verdict or a status is lost only to a PATCH, and     *)
(* only to what its copy of the row held: merges and validators change     *)
(* their own columns, however old what they read is.  (PATCH is said to    *)
(* "Only allow updating the status field", lead_handler.go, but writes its *)
(* copy's sources and verdict too.)                                        *)
OnlyPatchOverwrites ==
    [][\/ ~ row.sources \subseteq row'.sources
       \/ row.email # "pending" /\ row'.email = "pending"
       \/ row.status # row'.status
       => \E c \in Patchers :
             /\ call[c].pc = "have" /\ call'[c].pc = "done"
             /\ row' = [call[c].copy EXCEPT !.status = row'.status]]_vars

(* An address is validated in the end and stays so: a PATCH that puts the  *)
(* row back makes it pending again, and the next run finds it.             *)
ValidatedInTheEnd == <>[](row.email # "pending")

(* A copy stored after a write had removed the older one, or one whose     *)
(* removal was lost, is served until its time to live ends only: once the  *)
(* writes stop, what is cached is the row.                                 *)
CacheCatchesUp == <>[](cached # NoRow => cached = row)
=============================================================================
