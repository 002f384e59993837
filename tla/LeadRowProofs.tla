--------------------------- MODULE LeadRowProofs ----------------------------
(* The type invariant of LeadRow and who may undo what in its row.         *)
EXTENDS LeadRow, TLAPS

(* A client's request keeps its record well-typed.                         *)
LEMMA CallTypes ==
    ASSUME NEW c \in Clients, NEW pc, NEW copy, call \in [Clients -> Calls],
           \A d \in Clients : call[d].pc \in {"store", "have"} => call[d].copy \in Rows,
           pc \in {"idle", "load", "store", "have", "done"},
           copy \in Rows \cup {NoRow},
           pc \in {"store", "have"} => copy \in Rows,
           Goes(c, pc, copy)
    PROVE  /\ call' \in [Clients -> Calls]
           /\ \A d \in Clients : call'[d].pc \in {"store", "have"} => call'[d].copy \in Rows
BY DEF Goes, Calls

LEMMA InitTypes == Init => RowTypeOK
BY RowAssumption DEF Init, RowTypeOK, Rows, Calls

LEMMA NextTypes == RowTypeOK /\ [Next]_vars => RowTypeOK'
<1> SUFFICES ASSUME RowTypeOK, [Next]_vars PROVE RowTypeOK'
  OBVIOUS
<1> USE DEF RowTypeOK
<1>1. ASSUME NEW c \in Clients, GetByID(c) PROVE RowTypeOK'
  BY <1>1, CallTypes DEF GetByID
<1>2. ASSUME NEW c \in Clients, Load(c) PROVE RowTypeOK'
  BY <1>2, CallTypes DEF Load
<1>3. ASSUME NEW c \in Clients, Store(c) PROVE RowTypeOK'
  BY <1>3, CallTypes DEF Store
<1>4. ASSUME NEW c \in Clients, Answer(c) PROVE RowTypeOK'
  BY <1>4, CallTypes DEF Answer
<1>5. ASSUME NEW c \in Clients, NEW status \in Statuses, UpdateLead(c, status)
      PROVE  RowTypeOK'
  <2>1. row' \in Rows
    BY <1>5 DEF UpdateLead, Rows
  <2> QED
    BY <1>5, <2>1, CallTypes DEF UpdateLead
<1>6. ASSUME NEW c \in Clients, UpdateFails(c) PROVE RowTypeOK'
  BY <1>6, CallTypes, RowAssumption DEF UpdateFails
<1>7. ASSUME NEW s \in Sources, MergeSources(s) PROVE RowTypeOK'
  BY <1>7 DEF MergeSources, Rows
<1>8. CASE RemoveCached
  BY <1>8 DEF RemoveCached
<1>9. CASE Expire
  BY <1>9 DEF Expire
<1>10. ASSUME NEW v \in Validators, Query(v) PROVE RowTypeOK'
  BY <1>10 DEF Query
<1>11. ASSUME NEW v \in Validators, NEW mxOK \in BOOLEAN, Validate(v, mxOK)
       PROVE  RowTypeOK'
  BY <1>11 DEF Validate, Rows
<1>12. ASSUME NEW v \in Validators, ValidateFails(v) PROVE RowTypeOK'
  BY <1>12, RowAssumption DEF ValidateFails
<1>13. CASE UNCHANGED vars
  BY <1>13 DEF vars
<1> QED
  BY <1>1, <1>2, <1>3, <1>4, <1>5, <1>6, <1>7, <1>8, <1>9, <1>10, <1>11,
     <1>12, <1>13 DEF Next, Fetch

(* The row, the cached copy and every copy a request holds are rows of the *)
(* table: no request goes on with a copy it does not have.                 *)
THEOREM RowTypes == Spec => []RowTypeOK
<1>1. RowTypeOK /\ [Next]_vars => RowTypeOK'
  BY NextTypes
<1> QED
  BY <1>1, InitTypes, PTL DEF Spec

(* What OnlyPatchOverwrites says of a step.                                *)
Overwrites ==
    \/ ~ row.sources \subseteq row'.sources
    \/ row.email # "pending" /\ row'.email = "pending"
    \/ row.status # row'.status

ByPatch ==
    \E c \in Patchers :
       /\ call[c].pc = "have" /\ call'[c].pc = "done"
       /\ row' = [call[c].copy EXCEPT !.status = row'.status]

LEMMA NextOverwrites == RowTypeOK /\ [Next]_vars => (Overwrites => ByPatch)
<1> SUFFICES ASSUME RowTypeOK, [Next]_vars, Overwrites PROVE ByPatch
  OBVIOUS
<1>1. ASSUME row' = row PROVE FALSE
  BY <1>1 DEF Overwrites
<1>2. ASSUME NEW c \in Clients, NEW status \in Statuses, UpdateLead(c, status)
      PROVE  ByPatch
  <2>1. c \in Patchers /\ call[c].pc = "have" /\ call[c].copy \in Rows
    BY <1>2 DEF UpdateLead, RowTypeOK
  <2>2. call'[c].pc = "done"
    BY <1>2 DEF UpdateLead, Goes, RowTypeOK
  <2>3. row' = [call[c].copy EXCEPT !.status = row'.status]
    BY <1>2, <2>1 DEF UpdateLead, Rows
  <2> QED
    BY <2>1, <2>2, <2>3 DEF ByPatch
<1>3. ASSUME NEW s \in Sources, MergeSources(s) PROVE FALSE
  BY <1>3 DEF MergeSources, Overwrites, RowTypeOK, Rows
<1>4. ASSUME NEW v \in Validators, NEW mxOK \in BOOLEAN, Validate(v, mxOK)
      PROVE  FALSE
  BY <1>4 DEF Validate, Overwrites, RowTypeOK, Rows
<1> QED
  BY <1>1, <1>2, <1>3, <1>4
  DEF Next, Fetch, GetByID, Load, Store, Answer, UpdateFails, RemoveCached,
      Expire, Query, ValidateFails, vars

(* Whatever the timing of PATCHes, merges and validators and however old   *)
(* the cached copy, only a PATCH undoes a merge, a verdict or a status.    *)
THEOREM PatchesOverwrite == Spec => OnlyPatchOverwrites
<1>1. RowTypeOK /\ [Next]_vars =>
        [\/ ~ row.sources \subseteq row'.sources
         \/ row.email # "pending" /\ row'.email = "pending"
         \/ row.status # row'.status
         => \E c \in Patchers :
               /\ call[c].pc = "have" /\ call'[c].pc = "done"
               /\ row' = [call[c].copy EXCEPT !.status = row'.status]]_vars
  BY NextOverwrites DEF Overwrites, ByPatch
<1> QED
  BY <1>1, RowTypes, PTL DEF Spec, OnlyPatchOverwrites
=============================================================================
