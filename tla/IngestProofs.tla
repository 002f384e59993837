---------------------------- MODULE IngestProofs ----------------------------
(***************************************************************************)
(* Theorems about LeadIngest, for any leads, batches and API instances:    *)
(* type correctness, and one row per contact.                              *)
(***************************************************************************)
EXTENDS LeadIngest, SequenceTheorems, FiniteSetTheorems, TLAPS

-----------------------------------------------------------------------------
(***************************************************************************)
(* Type correctness.                                                       *)
(***************************************************************************)

(* The leads of a batch are a nonempty sequence.                           *)
LEMMA BatchLeads ==
    ASSUME NEW b \in Batches
    PROVE  LeadsOf[b] \in Seq(Leads) /\ LeadsOf[b] # <<>>
  BY BatchesAssumption

(* The first loop moves on to a lead, to the insertion of a nonempty list, *)
(* or to the end.                                                          *)
LEMMA NextLeadOK ==
    ASSUME NEW s, s \in DrainerStates, s.item \in Items, s.left # <<>>
    PROVE  DrainerOK(NextLead(s))
<1>1. s.left \in Seq(Leads) /\ s.toInsert \in Seq(Leads)
  BY DEF DrainerStates
<1>2. Tail(s.left) \in Seq(Leads)
  BY <1>1
<1>3. CASE Tail(s.left) # <<>>
  BY <1>1, <1>2, <1>3 DEF NextLead, DrainerOK, DrainerStates
<1>4. CASE Tail(s.left) = <<>>
  <2>1. Len(s.toInsert) \in Nat
    BY <1>1
  <2> QED
    BY <1>1, <1>4, <2>1 DEF NextLead, DrainerOK, DrainerStates
<1> QED
  BY <1>3, <1>4

(* The insert loops move on to a lead, or to the end.                      *)
LEMMA NextInsertOK ==
    ASSUME NEW s, DrainerOK(s), s.pc \in {"insert", "fallback"}
    PROVE  DrainerOK(NextInsert(s))
<1>1. s \in DrainerStates /\ s.left \in Seq(Leads) /\ s.left # <<>> /\ s.item \in Items
  BY DEF DrainerOK, DrainerStates
<1>2. Tail(s.left) \in Seq(Leads)
  BY <1>1, HeadTailProperties
<1>3. CASE Tail(s.left) # <<>>
  BY <1>1, <1>2, <1>3 DEF NextInsert, DrainerOK, DrainerStates
<1>4. CASE Tail(s.left) = <<>>
  <2>1. NextInsert(s) = [s EXCEPT !.pc = "settle", !.left = <<>>]
    BY <1>4 DEF NextInsert
  <2>2. <<>> \in Seq(Leads)
    OBVIOUS
  <2> QED
    BY <1>1, <2>1, <2>2 DEF DrainerOK, DrainerStates
<1> QED
  BY <1>3, <1>4

(* The fallback starts over with the leads InsertBatch was given.          *)
LEMMA FallBackOK ==
    ASSUME NEW s, DrainerOK(s), s.pc = "insert"
    PROVE  DrainerOK(FallBack(s))
  BY DEF FallBack, DrainerOK, DrainerStates

(* The idle state of a loop.                                               *)
LEMMA IdleOK == DrainerOK(IdleDrainer)
  BY DEF DrainerOK, DrainerStates, IdleDrainer

(* The initial state has the types.                                        *)
LEMMA InitIngestTypeOK == Init => IngestTypeOK
<1> SUFFICES ASSUME Init PROVE IngestTypeOK
  OBVIOUS
<1>1. /\ rows \in [Leads -> Nat] /\ sources \in [Leads -> SUBSET AllSources]
      /\ queue \in Seq(Items) /\ pushes \in [Batches -> Nat]
  BY DEF Init
<1>2. drainer \in [Drainers -> DrainerStates]
  BY IdleOK DEF Init, DrainerOK
<1>3. \A d \in Drainers : DrainerOK(drainer[d])
  BY IdleOK DEF Init
<1>4. faults \in 0..MaxFaults /\ exits \in 0..MaxExits
  BY IngestBoundsAssumption DEF Init
<1> QED
  BY <1>1, <1>2, <1>3, <1>4 DEF IngestTypeOK

(* One loop takes a new state and the others keep theirs.                  *)
LEMMA BecomesOK ==
    ASSUME IngestTypeOK, NEW d \in Drainers, NEW s, DrainerOK(s), Becomes(d, s)
    PROVE  /\ drainer' \in [Drainers -> DrainerStates]
           /\ \A e \in Drainers : DrainerOK(drainer'[e])
  BY DEF IngestTypeOK, Becomes, DrainerOK

(* A loop's step that leaves the bounded counters within their bounds.     *)
LEMMA CountersOK ==
    ASSUME IngestTypeOK, NoFault \/ IngestFault
    PROVE  faults' \in 0..MaxFaults /\ exits' \in 0..MaxExits
  BY IngestBoundsAssumption DEF IngestTypeOK, NoFault, IngestFault

(* A new row and its source have their types.                              *)
LEMMA InsertRowOK ==
    ASSUME IngestTypeOK, NEW l \in Leads, NEW b \in Batches, InsertRow(l, SourceOf[b])
    PROVE  rows' \in [Leads -> Nat] /\ sources' \in [Leads -> SUBSET AllSources]
  BY DEF IngestTypeOK, InsertRow, AllSources

(* Every step keeps the types.                                             *)
LEMMA NextIngestTypeOK == IngestTypeOK /\ [Next]_vars => IngestTypeOK'
<1> SUFFICES ASSUME IngestTypeOK, [Next]_vars PROVE IngestTypeOK'
  OBVIOUS
<1> USE DEF At
<1>a. \A d \in Drainers : DrainerOK(drainer[d]) /\ drainer[d] \in DrainerStates
  BY DEF IngestTypeOK
<1>1. ASSUME NEW b \in Batches, Push(b) PROVE IngestTypeOK'
  <2>1. [batch |-> b, try |-> 0] \in Items
    BY DEF Items
  <2>2. queue' \in Seq(Items)
    BY <1>1, <2>1 DEF Push, IngestTypeOK
  <2>3. pushes' \in [Batches -> Nat]
    BY <1>1 DEF Push, IngestTypeOK
  <2> QED
    BY <1>1, <2>2, <2>3 DEF Push, IngestTypeOK
<1>2. ASSUME NEW d \in Drainers, DequeueBatch(d) PROVE IngestTypeOK'
  <2> DEFINE s == [IdleDrainer EXCEPT !.pc = "find", !.item = Head(queue),
                                      !.left = LeadsOf[Head(queue).batch]]
  <2>1. Head(queue) \in Items /\ Tail(queue) \in Seq(Items)
    BY <1>2, HeadTailProperties DEF DequeueBatch, IngestTypeOK
  <2>2. Head(queue).batch \in Batches
    BY <2>1 DEF Items
  <2>3. DrainerOK(s)
    <3>1. /\ LeadsOf[Head(queue).batch] \in Seq(Leads)
          /\ LeadsOf[Head(queue).batch] # <<>>
      BY <2>2, BatchLeads
    <3>2. /\ s.pc = "find" /\ s.item = Head(queue)
          /\ s.left = LeadsOf[Head(queue).batch]
      BY DEF IdleDrainer
    <3>3. s \in DrainerStates
      <4>1. IdleDrainer \in DrainerStates
        BY IdleOK DEF DrainerOK
      <4> QED
        BY <2>1, <3>1, <4>1 DEF DrainerStates
    <3> QED
      BY <2>1, <3>1, <3>2, <3>3 DEF DrainerOK
  <2>4. Becomes(d, s)
    BY <1>2 DEF DequeueBatch
  <2> QED
    BY <1>2, <2>1, <2>3, <2>4, BecomesOK, CountersOK DEF DequeueBatch, IngestTypeOK
<1>3. ASSUME NEW d \in Drainers, FindDuplicate(d) PROVE IngestTypeOK'
  <2>1. /\ drainer[d].left \in Seq(Leads) /\ drainer[d].left # <<>>
        /\ drainer[d].item \in Items /\ Current(d) \in Leads
        /\ drainer[d].toInsert \in Seq(Leads)
    BY <1>3, <1>a, HeadTailProperties DEF FindDuplicate, DrainerOK, DrainerStates, Current
  <2>2. PICK s : DrainerOK(s) /\ Becomes(d, s)
    <3>1. ASSUME NEW m \in SameBusiness(Current(d)),
                 Becomes(d, [drainer[d] EXCEPT !.pc = "merge", !.found = {m}])
          PROVE  \E s : DrainerOK(s) /\ Becomes(d, s)
      <4>1. m \in Leads
        BY DEF SameBusiness
      <4>2. DrainerOK([drainer[d] EXCEPT !.pc = "merge", !.found = {m}])
        BY <4>1, <2>1, <1>a DEF DrainerOK, DrainerStates
      <4> QED
        BY <3>1, <4>2
    <3>2. ASSUME Becomes(d, NextLead([drainer[d] EXCEPT
                                          !.toInsert = Append(@, Current(d))]))
          PROVE  \E s : DrainerOK(s) /\ Becomes(d, s)
      <4> DEFINE t == [drainer[d] EXCEPT !.toInsert = Append(@, Current(d))]
      <4>1. Append(drainer[d].toInsert, Current(d)) \in Seq(Leads)
        BY <2>1
      <4>2. t \in DrainerStates /\ t.item \in Items /\ t.left # <<>>
        BY <4>1, <2>1, <1>a DEF DrainerStates
      <4>3. DrainerOK(NextLead(t))
        BY <4>2, NextLeadOK
      <4> QED
        BY <3>2, <4>3
    <3> QED
      BY <1>3, <3>1, <3>2 DEF FindDuplicate
  <2> QED
    BY <1>3, <2>2, BecomesOK, CountersOK DEF FindDuplicate, NoRow, IngestTypeOK
<1>4. ASSUME NEW d \in Drainers, FindFails(d) PROVE IngestTypeOK'
  <2> DEFINE t == [drainer[d] EXCEPT !.skipped = @ + 1]
  <2>1. t \in DrainerStates /\ t.item \in Items /\ t.left # <<>>
    BY <1>4, <1>a DEF FindFails, DrainerOK, DrainerStates
  <2>2. DrainerOK(NextLead(t))
    BY <2>1, NextLeadOK
  <2> QED
    BY <1>4, <2>2, BecomesOK, CountersOK DEF FindFails, NoRow, IngestTypeOK
<1>5. ASSUME NEW d \in Drainers, MergeSources(d) PROVE IngestTypeOK'
  <2> DEFINE t == [drainer[d] EXCEPT !.merged = @ + 1]
  <2>1. t \in DrainerStates /\ t.item \in Items /\ t.left # <<>>
    BY <1>5, <1>a DEF MergeSources, DrainerOK, DrainerStates
  <2>2. DrainerOK(NextLead(t))
    BY <2>1, NextLeadOK
  <2>3. SourceOf[Batch(d)] \in AllSources
    BY <2>1 DEF AllSources, Batch, Items
  <2>4. sources' \in [Leads -> SUBSET AllSources]
    BY <1>5, <2>3 DEF MergeSources, IngestTypeOK
  <2> QED
    BY <1>5, <2>2, <2>4, BecomesOK, CountersOK DEF MergeSources, IngestTypeOK
<1>6. ASSUME NEW d \in Drainers, MergeFails(d) PROVE IngestTypeOK'
  <2> DEFINE t == [drainer[d] EXCEPT !.merged = @ + 1]
  <2>1. t \in DrainerStates /\ t.item \in Items /\ t.left # <<>>
    BY <1>6, <1>a DEF MergeFails, DrainerOK, DrainerStates
  <2>2. DrainerOK(NextLead(t))
    BY <2>1, NextLeadOK
  <2> QED
    BY <1>6, <2>2, BecomesOK, CountersOK DEF MergeFails, NoRow, IngestTypeOK
<1>b. ASSUME NEW d \in Drainers, drainer[d].pc \in {"insert", "fallback"}
      PROVE  /\ DrainerOK(drainer[d]) /\ Current(d) \in Leads /\ Batch(d) \in Batches
             /\ DrainerOK(NextInsert(drainer[d]))
             /\ drainer[d].pc = "insert" => DrainerOK(FallBack(drainer[d]))
             /\ DrainerOK(NextInsert([drainer[d] EXCEPT !.skipped = @ + 1]))
             /\ DrainerOK(NextInsert([drainer[d] EXCEPT !.inserted = @ + 1]))
  <2>1. DrainerOK(drainer[d])
    BY <1>a
  <2>2. Current(d) \in Leads /\ Batch(d) \in Batches
    BY <1>b, <2>1 DEF DrainerOK, DrainerStates, Current, Batch, Items
  <2>3. /\ DrainerOK([drainer[d] EXCEPT !.skipped = @ + 1])
        /\ [drainer[d] EXCEPT !.skipped = @ + 1].pc \in {"insert", "fallback"}
    BY <1>b, <2>1 DEF DrainerOK, DrainerStates
  <2>4. /\ DrainerOK([drainer[d] EXCEPT !.inserted = @ + 1])
        /\ [drainer[d] EXCEPT !.inserted = @ + 1].pc \in {"insert", "fallback"}
    BY <1>b, <2>1 DEF DrainerOK, DrainerStates
  <2> QED
    BY <1>b, <2>1, <2>2, <2>3, <2>4, NextInsertOK, FallBackOK
<1>7. ASSUME NEW d \in Drainers, InsertBatch(d) PROVE IngestTypeOK'
  <2>1. CASE Refused(Current(d))
    BY <1>7, <1>b, <2>1, BecomesOK, CountersOK DEF InsertBatch, NoRow, IngestTypeOK
  <2>2. CASE ~Refused(Current(d))
    BY <1>7, <1>b, <2>2, BecomesOK, CountersOK, InsertRowOK
    DEF InsertBatch, IngestTypeOK
  <2> QED
    BY <2>1, <2>2
<1>8. ASSUME NEW d \in Drainers, InsertBatchFails(d) PROVE IngestTypeOK'
  BY <1>8, <1>b, BecomesOK, CountersOK DEF InsertBatchFails, NoRow, IngestTypeOK
<1>9. ASSUME NEW d \in Drainers, Insert(d) PROVE IngestTypeOK'
  <2>1. CASE Refused(Current(d))
    BY <1>9, <1>b, <2>1, BecomesOK, CountersOK DEF Insert, NoRow, IngestTypeOK
  <2>2. CASE ~Refused(Current(d))
    BY <1>9, <1>b, <2>2, BecomesOK, CountersOK, InsertRowOK DEF Insert, IngestTypeOK
  <2> QED
    BY <2>1, <2>2
<1>10. ASSUME NEW d \in Drainers, InsertFails(d) PROVE IngestTypeOK'
  BY <1>10, <1>b, BecomesOK, CountersOK DEF InsertFails, NoRow, IngestTypeOK
<1>11. ASSUME NEW d \in Drainers, SettleBatch(d) PROVE IngestTypeOK'
  <2>1. [drainer[d].item EXCEPT !.try = @ + 1] \in Items
    BY <1>11, <1>a DEF SettleBatch, DrainerOK, Items
  <2>2. queue' \in Seq(Items)
    BY <1>11, <2>1 DEF SettleBatch, IngestTypeOK
  <2> QED
    BY <1>11, <2>2, IdleOK, BecomesOK, CountersOK DEF SettleBatch, NoRow, IngestTypeOK
<1>12. ASSUME NEW d \in Drainers, RequeueFails(d) PROVE IngestTypeOK'
  BY <1>12, IdleOK, BecomesOK, CountersOK DEF RequeueFails, NoRow, IngestTypeOK
<1>13. ASSUME NEW d \in Drainers, IngestStops(d) PROVE IngestTypeOK'
  <2>1. exits' \in 0..MaxExits
    BY <1>13, IngestBoundsAssumption DEF IngestStops, IngestTypeOK
  <2> QED
    BY <1>13, <2>1, IdleOK, BecomesOK DEF IngestStops, NoRow, IngestTypeOK
<1>14. CASE UNCHANGED vars
  BY <1>14 DEF vars, IngestTypeOK
<1> QED
  BY <1>1, <1>2, <1>3, <1>4, <1>5, <1>6, <1>7, <1>8, <1>9, <1>10, <1>11, <1>12,
     <1>13, <1>14 DEF Next, DrainStep, DrainFails

(* Every reachable state is well typed, and no loop stands at a call       *)
(* without the batch and the lead the call is about.                       *)
THEOREM IngestTypeCorrect == Spec => []IngestTypeOK
  BY InitIngestTypeOK, NextIngestTypeOK, PTL DEF Spec

-----------------------------------------------------------------------------
(***************************************************************************)
(* One row per contact.                                                    *)
(***************************************************************************)

(* A row is inserted only where no row has one of its contacts.            *)
LEMMA InsertKeepsOneRow ==
    ASSUME IngestTypeOK, OneRowPerContact, NEW l \in Leads, ~Refused(l),
           rows' = [rows EXCEPT ![l] = @ + 1]
    PROVE  OneRowPerContact'
<1> SUFFICES ASSUME NEW m \in Leads, NEW n \in Leads,
                    rows'[m] > 0, rows'[n] > 0, ContactsOf[m] \cap ContactsOf[n] # {}
             PROVE  m = n /\ rows'[m] = 1
  BY DEF OneRowPerContact
<1>1. rows \in [Leads -> Nat]
  BY DEF IngestTypeOK
<1>2. \A k \in Leads : rows[k] > 0 => ContactsOf[k] \cap ContactsOf[l] = {}
  BY DEF Refused, SameBusiness
<1>3. \A k \in Leads : k # l => rows'[k] = rows[k]
  BY <1>1
<1>4. CASE m = l
  <2>1. n = l
    BY <1>2, <1>3, <1>4
  <2>2. ~(rows[l] > 0)
    BY <1>2, <1>4, <2>1
  <2>3. rows[l] = 0
    BY <1>1, <2>2
  <2> QED
    BY <1>1, <1>4, <2>1, <2>3
<1>5. CASE m # l
  <2>1. n # l
    BY <1>2, <1>3, <1>5
  <2> QED
    BY <1>3, <1>5, <2>1 DEF OneRowPerContact
<1> QED
  BY <1>4, <1>5

(* Every step keeps one row per contact.                                   *)
LEMMA NextOneRow ==
    IngestTypeOK /\ OneRowPerContact /\ [Next]_vars => OneRowPerContact'
<1> SUFFICES ASSUME IngestTypeOK, OneRowPerContact, [Next]_vars PROVE OneRowPerContact'
  OBVIOUS
<1>1. ASSUME rows' = rows PROVE OneRowPerContact'
  BY <1>1 DEF OneRowPerContact
<1>2. ASSUME NEW d \in Drainers, At(d, "insert") \/ At(d, "fallback")
      PROVE  Current(d) \in Leads
  BY <1>2, HeadTailProperties DEF At, Current, IngestTypeOK, DrainerOK, DrainerStates
<1>3. ASSUME NEW d \in Drainers, InsertBatch(d) PROVE OneRowPerContact'
  <2>1. CASE Refused(Current(d))
    BY <1>1, <1>3, <2>1 DEF InsertBatch, NoRow
  <2>2. CASE ~Refused(Current(d))
    BY <1>2, <1>3, <2>2, InsertKeepsOneRow DEF InsertBatch, InsertRow
  <2> QED
    BY <2>1, <2>2
<1>4. ASSUME NEW d \in Drainers, Insert(d) PROVE OneRowPerContact'
  <2>1. CASE Refused(Current(d))
    BY <1>1, <1>4, <2>1 DEF Insert, NoRow
  <2>2. CASE ~Refused(Current(d))
    BY <1>2, <1>4, <2>2, InsertKeepsOneRow DEF Insert, InsertRow
  <2> QED
    BY <2>1, <2>2
<1>5. ASSUME NEW d \in Drainers,
             \/ DequeueBatch(d) \/ FindDuplicate(d) \/ MergeSources(d)
             \/ SettleBatch(d) \/ DrainFails(d)
      PROVE  rows' = rows
  BY <1>5 DEF DequeueBatch, FindDuplicate, MergeSources, SettleBatch, DrainFails,
              FindFails, MergeFails, InsertBatchFails, InsertFails, RequeueFails,
              IngestStops, NoRow
<1>6. ASSUME NEW b \in Batches, Push(b) PROVE rows' = rows
  BY <1>6 DEF Push
<1> QED
  BY <1>1, <1>3, <1>4, <1>5, <1>6 DEF Next, DrainStep, vars

(* However the instances interleave, whatever fails and however often a    *)
(* batch comes back, a phone, e-mail or domain is in one row at most.      *)
THEOREM OneRow == Spec => []OneRowPerContact
<1>1. Init => OneRowPerContact
  BY DEF Init, OneRowPerContact
<1> QED
  BY <1>1, IngestTypeCorrect, NextOneRow, PTL DEF Spec

-----------------------------------------------------------------------------
(***************************************************************************)
(* Losses are bounded.                                                     *)
(***************************************************************************)

(* What a sequence contains when a lead is put behind it or taken off.     *)
LEMMA ContainsAppend ==
    ASSUME NEW S, NEW s \in Seq(S), NEW x \in S, NEW e
    PROVE  Contains(Append(s, x), e) <=> Contains(s, e) \/ e = x
<1>1. /\ Len(s) \in Nat /\ Len(Append(s, x)) = Len(s) + 1
      /\ \A i \in 1..Len(s) : Append(s, x)[i] = s[i]
      /\ Append(s, x)[Len(s) + 1] = x
  OBVIOUS
<1>2. Contains(Append(s, x), e) => Contains(s, e) \/ e = x
  <2>1. ASSUME NEW i \in 1..Len(Append(s, x)), Append(s, x)[i] = e
        PROVE  Contains(s, e) \/ e = x
    <3>1. CASE i = Len(s) + 1
      BY <1>1, <2>1, <3>1
    <3>2. CASE i # Len(s) + 1
      <4>1. i \in 1..Len(s) /\ s[i] = e
        BY <1>1, <2>1, <3>2
      <4> QED
        BY <4>1 DEF Contains
    <3> QED
      BY <3>1, <3>2
  <2> QED
    BY <2>1 DEF Contains
<1>3. Contains(s, e) => Contains(Append(s, x), e)
  <2>1. ASSUME NEW i \in 1..Len(s), s[i] = e
        PROVE  Contains(Append(s, x), e)
    <3>1. i \in 1..Len(Append(s, x)) /\ Append(s, x)[i] = e
      BY <1>1, <2>1
    <3> QED
      BY <3>1 DEF Contains
  <2> QED
    BY <2>1 DEF Contains
<1>4. Contains(Append(s, x), x)
  <2>1. Len(s) + 1 \in 1..Len(Append(s, x))
    BY <1>1
  <2> QED
    BY <1>1, <2>1 DEF Contains
<1> QED
  BY <1>2, <1>3, <1>4

LEMMA ContainsTail ==
    ASSUME NEW S, NEW s \in Seq(S), s # <<>>, NEW e
    PROVE  Contains(s, e) <=> e = Head(s) \/ Contains(Tail(s), e)
<1>1. /\ Len(s) \in Nat /\ Len(s) > 0 /\ Head(s) = s[1]
      /\ Len(Tail(s)) = Len(s) - 1
      /\ \A i \in 1..Len(Tail(s)) : Tail(s)[i] = s[i + 1]
  OBVIOUS
<1>2. Contains(s, e) => e = Head(s) \/ Contains(Tail(s), e)
  <2>1. ASSUME NEW i \in 1..Len(s), s[i] = e, i # 1
        PROVE  Contains(Tail(s), e)
    <3>1. i - 1 \in 1..Len(Tail(s)) /\ Tail(s)[i - 1] = e
      BY <1>1, <2>1
    <3> QED
      BY <3>1 DEF Contains
  <2> QED
    BY <1>1, <2>1 DEF Contains
<1>3. Contains(Tail(s), e) => Contains(s, e)
  <2>1. ASSUME NEW i \in 1..Len(Tail(s)), Tail(s)[i] = e
        PROVE  Contains(s, e)
    <3>1. i + 1 \in 1..Len(s) /\ s[i + 1] = e
      BY <1>1, <2>1
    <3> QED
      BY <3>1 DEF Contains
  <2> QED
    BY <2>1 DEF Contains
<1>4. Contains(s, Head(s))
  <2>1. 1 \in 1..Len(s)
    BY <1>1
  <2> QED
    BY <1>1, <2>1 DEF Contains
<1> QED
  BY <1>2, <1>3, <1>4

LEMMA ContainsNothing ==
    ASSUME NEW e
    PROVE  ~Contains(<<>>, e)
BY DEF Contains

(* The different elements of a sequence are no more than its length.       *)
LEMMA ElementsBounded ==
    ASSUME NEW S, NEW s \in Seq(S), NEW X, \A x \in X : Contains(s, x)
    PROVE  /\ IsFiniteSet(X) /\ Cardinality(X) \in Nat /\ Len(s) \in Nat
           /\ Cardinality(X) <= Len(s)
<1> DEFINE at == [x \in X |-> CHOOSE i \in 1..Len(s) : s[i] = x]
<1>1. \A x \in X : at[x] \in 1..Len(s) /\ s[at[x]] = x
  BY DEF Contains
<1>2. at \in Injection(X, 1..Len(s))
  BY <1>1 DEF Injection, IsInjective
<1>3. /\ Len(s) \in Nat /\ IsFiniteSet(1..Len(s)) /\ Cardinality(1..Len(s)) = Len(s)
  <2>1. Len(s) \in Nat
    OBVIOUS
  <2> QED
    BY <2>1, FS_Interval
<1>4. IsFiniteSet(X) /\ Cardinality(X) <= Cardinality(1..Len(s))
  BY <1>2, <1>3, FS_Injection DEF ExistsInjection
<1> QED
  BY <1>3, <1>4, FS_CardinalityType

(* The leads a loop in state s has still to store or to find stored.       *)
InHand(s, l) ==
    /\ s.pc # "idle"
    /\ \/ Contains(s.left, l)
       \/ s.pc \in {"find", "merge"} /\ Contains(s.toInsert, l)

(* They are leads of its batch, the fallback will visit what InsertBatch   *)
(* has left, and the row of a merge has a contact of the lead.             *)
HandOK(s) ==
    s.pc # "idle" =>
        /\ \A l : Contains(s.left, l) \/ Contains(s.toInsert, l)
                      => Contains(LeadsOf[s.item.batch], l)
        /\ s.pc = "insert" => \A l : Contains(s.left, l) => Contains(s.toInsert, l)
        /\ s.pc = "merge" => s.found \subseteq SameBusiness(Head(s.left))
        /\ s.pc = "settle" => s.left = <<>>

HandsOK == \A d \in Drainers : HandOK(drainer[d])

Queued(l) == \E i \in 1..Len(queue) : Contains(LeadsOf[queue[i].batch], l)

(* The leads that no loop will store and no queued batch brings back.      *)
Missing ==
    {l \in Leads \ Unstorable : /\ Pushed(l) /\ ~Stored(l) /\ ~Queued(l)
                                /\ \A d \in Drainers : ~InHand(drainer[d], l)}

(* A lead that is missing was skipped by a failed call, or was in the      *)
(* memory of a process that exited.                                        *)
MissingBounded == Cardinality(Missing) <= faults + MaxBatch * exits

LEMMA MaxBatchBound ==
    /\ MaxBatch \in Nat
    /\ \A b \in Batches : Len(LeadsOf[b]) \in Nat /\ Len(LeadsOf[b]) <= MaxBatch
<1> DEFINE S == {Len(LeadsOf[b]) : b \in Batches}
<1>1. \A b \in Batches : Len(LeadsOf[b]) \in Nat
  BY BatchLeads
<1>2. \E x \in S : \A y \in S : x >= y
  <2>1. PICK b \in Batches : \A a \in Batches : Len(LeadsOf[a]) <= Len(LeadsOf[b])
    BY BatchesAssumption
  <2> QED
    BY <1>1, <2>1
<1>3. MaxBatch \in S /\ \A y \in S : MaxBatch >= y
  BY <1>2 DEF MaxBatch, Max
<1> QED
  BY <1>1, <1>3

(* A row stays, and so does what it says of the leads with its contacts.   *)
LEMMA StoredStays ==
    ASSUME IngestTypeOK, IngestTypeOK', [Next]_vars, NEW l \in Leads
    PROVE  /\ SameBusiness(l) \subseteq SameBusiness(l)'
           /\ Stored(l) => Stored(l)'
<1>1. /\ rows \in [Leads -> Nat]
      /\ UNCHANGED rows \/ \E k \in Leads : rows' = [rows EXCEPT ![k] = @ + 1]
  <2>1. ASSUME NEW d \in Drainers, InsertBatch(d) \/ Insert(d)
        PROVE  UNCHANGED rows \/ \E k \in Leads : rows' = [rows EXCEPT ![k] = @ + 1]
    <3>1. Current(d) \in Leads
      BY <2>1 DEF InsertBatch, Insert, At, Current, IngestTypeOK, DrainerOK, DrainerStates
    <3> QED
      BY <2>1, <3>1 DEF InsertBatch, Insert, NoRow, InsertRow
  <2> QED
    BY <2>1 DEF IngestTypeOK, Next, DrainStep, DrainFails, Push, DequeueBatch,
                FindDuplicate, MergeSources, SettleBatch, FindFails, MergeFails,
                InsertBatchFails, InsertFails, RequeueFails, IngestStops, NoRow, vars
<1>2. \A k \in Leads : rows[k] > 0 => rows'[k] > 0
  BY <1>1
<1>3. SameBusiness(l) \subseteq SameBusiness(l)'
  BY <1>2 DEF SameBusiness
<1> QED
  BY <1>2, <1>3 DEF Stored

(* A loop that goes on keeps its hands in order.                           *)
LEMMA NextLeadHand ==
    ASSUME NEW s \in DrainerStates, s.item \in Items, s.left # <<>>,
           s.pc \in {"find", "merge"}, NEW l
    PROVE  /\ InHand(NextLead(s), l)
                 <=> Contains(Tail(s.left), l) \/ Contains(s.toInsert, l)
           /\ NextLead(s).item = s.item /\ NextLead(s).toInsert = s.toInsert
           /\ Contains(NextLead(s).left, l)
                  => Contains(s.left, l) \/ Contains(s.toInsert, l)
           /\ NextLead(s).pc \in {"find", "insert", "settle"}
           /\ NextLead(s).pc = "insert" => NextLead(s).left = s.toInsert
           /\ NextLead(s).pc = "settle" => NextLead(s).left = <<>>
<1>1. s.left \in Seq(Leads) /\ s.toInsert \in Seq(Leads)
  BY DEF DrainerStates
<1>2. Contains(s.left, l) <=> l = Head(s.left) \/ Contains(Tail(s.left), l)
  BY <1>1, ContainsTail
<1>3. CASE Tail(s.left) # <<>>
  <2>1. NextLead(s) = [s EXCEPT !.pc = "find", !.left = Tail(s.left), !.found = {}]
    BY <1>3 DEF NextLead
  <2>2. /\ NextLead(s).pc = "find" /\ NextLead(s).left = Tail(s.left)
        /\ NextLead(s).item = s.item /\ NextLead(s).toInsert = s.toInsert
    BY <2>1 DEF DrainerStates
  <2> QED
    BY <1>2, <2>2 DEF InHand
<1>4. CASE Tail(s.left) = <<>>
  <2> DEFINE pc == IF s.toInsert = <<>> THEN "settle" ELSE "insert"
  <2>1. NextLead(s) = [s EXCEPT !.pc = pc, !.left = s.toInsert, !.found = {},
                                !.inserted = Len(s.toInsert)]
    BY <1>4 DEF NextLead
  <2>2. /\ NextLead(s).pc = pc /\ NextLead(s).left = s.toInsert
        /\ NextLead(s).item = s.item /\ NextLead(s).toInsert = s.toInsert
    BY <2>1 DEF DrainerStates
  <2> QED
    BY <1>4, <2>2, ContainsNothing DEF InHand
<1> QED
  BY <1>3, <1>4

LEMMA NextInsertHand ==
    ASSUME NEW s \in DrainerStates, s.left # <<>>, s.pc \in {"insert", "fallback"}, NEW l
    PROVE  /\ InHand(NextInsert(s), l) <=> Contains(Tail(s.left), l)
           /\ NextInsert(s).item = s.item /\ NextInsert(s).toInsert = s.toInsert
           /\ Contains(NextInsert(s).left, l) => Contains(s.left, l)
           /\ NextInsert(s).pc \in {s.pc, "settle"}
           /\ NextInsert(s).pc = "settle" => NextInsert(s).left = <<>>
<1>1. s.left \in Seq(Leads)
  BY DEF DrainerStates
<1>2. Contains(s.left, l) <=> l = Head(s.left) \/ Contains(Tail(s.left), l)
  BY <1>1, ContainsTail
<1>3. CASE Tail(s.left) # <<>>
  <2>1. NextInsert(s) = [s EXCEPT !.left = Tail(s.left)]
    BY <1>3 DEF NextInsert
  <2>2. /\ NextInsert(s).pc = s.pc /\ NextInsert(s).left = Tail(s.left)
        /\ NextInsert(s).item = s.item /\ NextInsert(s).toInsert = s.toInsert
    BY <2>1 DEF DrainerStates
  <2> QED
    BY <1>2, <2>2 DEF InHand
<1>4. CASE Tail(s.left) = <<>>
  <2>1. NextInsert(s) = [s EXCEPT !.pc = "settle", !.left = <<>>]
    BY <1>4 DEF NextInsert
  <2>2. /\ NextInsert(s).pc = "settle" /\ NextInsert(s).left = <<>>
        /\ NextInsert(s).item = s.item /\ NextInsert(s).toInsert = s.toInsert
    BY <2>1 DEF DrainerStates
  <2> QED
    BY <1>4, <2>2, ContainsNothing DEF InHand
<1> QED
  BY <1>3, <1>4

(* What a step of a loop does with the leads it has in hand: none is       *)
(* dropped that could be stored and is not, but for the one a failed call  *)
(* is about, or all of them when the process exits.                        *)
LEMMA HandStep ==
    ASSUME IngestTypeOK, IngestTypeOK', HandsOK, [Next]_vars,
           NEW d \in Drainers, DrainStep(d) \/ DrainFails(d)
    PROVE  /\ HandOK(drainer[d])'
           /\ \A l \in Leads \ Unstorable : InHand(drainer[d], l) =>
                  \/ InHand(drainer[d], l)' \/ Stored(l)'
                  \/ l = Current(d) /\ faults' = faults + 1 /\ UNCHANGED exits
                  \/ exits' = exits + 1 /\ UNCHANGED faults
<1> USE DEF At
<1> DEFINE s == drainer[d]
<1>0. s \in DrainerStates
  BY DEF IngestTypeOK
<1>1. /\ s \in DrainerStates /\ DrainerOK(s) /\ HandOK(s)
      /\ drainer \in [Drainers -> DrainerStates] /\ rows \in [Leads -> Nat]
      /\ s.left \in Seq(Leads) /\ s.toInsert \in Seq(Leads)
  BY DEF IngestTypeOK, HandsOK, DrainerStates
<1>c. PICK cur : cur = Current(d)
  OBVIOUS
<1>2. ASSUME NEW t, Becomes(d, t)
      PROVE  drainer'[d] = t
  BY <1>1, <1>2 DEF Becomes
<1>3. ASSUME s.left # <<>>
      PROVE  /\ s.pc # "idle" => s.item \in Items
             /\ cur = Head(s.left) /\ cur \in Leads
             /\ \A l : Contains(s.left, l) <=> l = cur \/ Contains(Tail(s.left), l)
  BY <1>1, <1>3, <1>c, ContainsTail DEF Current, DrainerOK
<1>4. \A l \in Leads : /\ SameBusiness(l) \subseteq SameBusiness(l)'
                       /\ Stored(l) => Stored(l)'
  BY StoredStays
<1>5. ASSUME NEW t \in DrainerStates, s.pc \in {"find", "merge"}, t.pc = s.pc,
             t.item = s.item, t.left = s.left,
             \A l : Contains(t.toInsert, l) => Contains(s.toInsert, l) \/ l = cur,
             Becomes(d, NextLead(t))
      PROVE  /\ HandOK(drainer[d])'
             /\ \A l : InHand(drainer[d], l)' <=> Contains(Tail(s.left), l)
                                                  \/ Contains(t.toInsert, l)
  <2> DEFINE u == NextLead(t)
  <2>1. s.left # <<>> /\ s.item \in Items
    BY <1>1, <1>5 DEF DrainerOK
  <2>2. drainer'[d] = u
    BY <1>2, <1>5
  <2>3. ASSUME NEW l
        PROVE  /\ InHand(u, l) <=> Contains(Tail(t.left), l) \/ Contains(t.toInsert, l)
               /\ u.item = t.item /\ u.toInsert = t.toInsert
               /\ Contains(u.left, l) => Contains(t.left, l) \/ Contains(t.toInsert, l)
               /\ u.pc \in {"find", "insert", "settle"}
               /\ u.pc = "insert" => u.left = t.toInsert
               /\ u.pc = "settle" => u.left = <<>>
    BY <1>5, <2>1, NextLeadHand
  <2> HIDE DEF u
  <2>4. \A l : Contains(u.left, l) \/ Contains(u.toInsert, l)
                   => Contains(LeadsOf[u.item.batch], l)
    BY <1>1, <1>3, <1>5, <2>1, <2>3 DEF HandOK
  <2>5. u.pc = "insert" => \A l : Contains(u.left, l) => Contains(u.toInsert, l)
    BY <2>3
  <2>6. u.pc # "merge"
    BY <2>3
  <2> QED
    BY <1>5, <2>2, <2>3, <2>4, <2>5, <2>6 DEF HandOK, InHand
<1>6. ASSUME NEW t \in DrainerStates, s.pc \in {"insert", "fallback"}, t.pc = s.pc,
             t.item = s.item, t.left = s.left, t.toInsert = s.toInsert,
             Becomes(d, NextInsert(t))
      PROVE  /\ HandOK(drainer[d])'
             /\ \A l : InHand(drainer[d], l)' <=> Contains(Tail(s.left), l)
  <2> DEFINE u == NextInsert(t)
  <2>1. s.left # <<>> /\ s.item \in Items
    BY <1>1, <1>6 DEF DrainerOK
  <2>2. drainer'[d] = u
    BY <1>2, <1>6
  <2>3. ASSUME NEW l
        PROVE  /\ InHand(u, l) <=> Contains(Tail(t.left), l)
               /\ u.item = t.item /\ u.toInsert = t.toInsert
               /\ Contains(u.left, l) => Contains(t.left, l)
               /\ u.pc \in {t.pc, "settle"}
               /\ u.pc = "settle" => u.left = <<>>
    BY <1>6, <2>1, NextInsertHand
  <2> HIDE DEF u
  <2>4. \A l : Contains(u.left, l) \/ Contains(u.toInsert, l)
                   => Contains(LeadsOf[u.item.batch], l)
    BY <1>1, <1>6, <2>3 DEF HandOK
  <2>5. u.pc = "insert" => \A l : Contains(u.left, l) => Contains(u.toInsert, l)
    BY <1>1, <1>6, <2>3 DEF HandOK
  <2>6. u.pc # "merge"
    BY <1>6, <2>3
  <2> QED
    BY <1>6, <2>2, <2>3, <2>4, <2>5, <2>6 DEF HandOK, InHand
<1>7. ASSUME s.pc = "insert", Becomes(d, FallBack(s))
      PROVE  HandOK(drainer[d])' /\ \A l : InHand(drainer[d], l) => InHand(drainer[d], l)'
  <2>1. FallBack(s) = [s EXCEPT !.pc = "fallback", !.left = s.toInsert, !.inserted = 0]
    BY DEF FallBack
  <2>2. /\ drainer'[d].pc = "fallback" /\ drainer'[d].left = s.toInsert
        /\ drainer'[d].item = s.item /\ drainer'[d].toInsert = s.toInsert
    BY <1>1, <1>2, <1>7, <2>1 DEF DrainerStates
  <2> QED
    BY <1>1, <1>7, <2>2 DEF HandOK, InHand
<1>8. ASSUME Becomes(d, IdleDrainer)
      PROVE  HandOK(drainer[d])'
  BY <1>2, <1>8 DEF HandOK, IdleDrainer
<1>9. CASE FindDuplicate(d)
  <2>1. s.pc = "find" /\ s.left # <<>>
    BY <1>1, <1>9 DEF FindDuplicate, DrainerOK
  <2>2. ASSUME NEW m \in SameBusiness(Current(d)),
               Becomes(d, [s EXCEPT !.pc = "merge", !.found = {m}])
        PROVE  HandOK(drainer[d])' /\ \A l : InHand(drainer[d], l) => InHand(drainer[d], l)'
    <3>1. /\ drainer'[d].pc = "merge" /\ drainer'[d].found = {m}
          /\ drainer'[d].item = s.item /\ drainer'[d].left = s.left
          /\ drainer'[d].toInsert = s.toInsert
      BY <1>1, <1>2, <2>2 DEF DrainerStates
    <3>2. m \in SameBusiness(cur)'
      BY <1>3, <1>4, <1>c, <2>1, <2>2
    <3> QED
      BY <1>1, <1>3, <2>1, <3>1, <3>2 DEF HandOK, InHand
  <2>3. ASSUME Becomes(d, NextLead([s EXCEPT !.toInsert = Append(@, Current(d))]))
        PROVE  HandOK(drainer[d])' /\ \A l : InHand(drainer[d], l) => InHand(drainer[d], l)'
    <3> DEFINE t == [s EXCEPT !.toInsert = Append(s.toInsert, Current(d))]
    <3>1. /\ t \in DrainerStates /\ t.pc = s.pc /\ t.item = s.item /\ t.left = s.left
          /\ t.toInsert = Append(s.toInsert, Current(d))
      <4>1. Append(s.toInsert, Current(d)) \in Seq(Leads)
        BY <1>1, <1>3, <1>c, <2>1
      <4> QED
        BY <1>0, <4>1 DEF DrainerStates
    <3>2. \A l : Contains(t.toInsert, l) <=> Contains(s.toInsert, l) \/ l = cur
      BY <1>1, <1>3, <1>c, <2>1, <3>1, ContainsAppend
    <3>3. Becomes(d, NextLead(t))
      BY <2>3
    <3> HIDE DEF t
    <3> QED
      BY <1>3, <1>5, <2>1, <3>1, <3>2, <3>3 DEF InHand
  <2> QED
    BY <1>9, <2>2, <2>3 DEF FindDuplicate
<1>10. CASE FindFails(d) \/ MergeSources(d) \/ MergeFails(d)
  <2>1. s.pc \in {"find", "merge"} /\ s.left # <<>>
    BY <1>1, <1>10 DEF FindFails, MergeSources, MergeFails, DrainerOK
  <2>2. PICK t \in DrainerStates :
           /\ t.pc = s.pc /\ t.item = s.item /\ t.left = s.left /\ t.toInsert = s.toInsert
           /\ Becomes(d, NextLead(t))
    <3>1. /\ [s EXCEPT !.skipped = @ + 1] \in DrainerStates
          /\ [s EXCEPT !.merged = @ + 1] \in DrainerStates
      <4>1. s.skipped + 1 \in Nat /\ s.merged + 1 \in Nat
        BY <1>0 DEF DrainerStates
      <4>2. [s EXCEPT !.skipped = @ + 1] \in DrainerStates
        BY <1>0, <4>1 DEF DrainerStates
      <4>3. [s EXCEPT !.merged = @ + 1] \in DrainerStates
        BY <1>0, <4>1 DEF DrainerStates
      <4> QED
        BY <4>2, <4>3
    <3> QED
      BY <1>0, <1>10, <3>1 DEF FindFails, MergeSources, MergeFails, DrainerStates
  <2>3. /\ HandOK(drainer[d])'
        /\ \A l : InHand(drainer[d], l) => InHand(drainer[d], l)' \/ l = cur
    BY <1>3, <1>5, <2>1, <2>2 DEF InHand
  <2>4. s.pc = "merge" => Stored(cur)'
    BY <1>1, <1>3, <1>4, <2>1 DEF HandOK, DrainerOK, Stored
  <2>5. s.pc = "find" => faults' = faults + 1 /\ UNCHANGED exits
    BY <1>10 DEF FindFails, MergeSources, MergeFails, IngestFault
  <2> QED
    BY <1>c, <2>1, <2>3, <2>4, <2>5
<1>11. CASE InsertBatch(d) \/ InsertBatchFails(d)
  <2>1. s.pc = "insert" /\ s.left # <<>>
    BY <1>1, <1>11 DEF InsertBatch, InsertBatchFails, DrainerOK
  <2>2. CASE Becomes(d, FallBack(s))
    BY <1>7, <2>1, <2>2
  <2>3. CASE Becomes(d, NextInsert(s)) /\ InsertRow(Current(d), SourceOf[Batch(d)])
    <3>1. Stored(cur)'
      BY <1>1, <1>3, <1>c, <2>1, <2>3 DEF InsertRow, Stored
    <3> QED
      BY <1>1, <1>3, <1>6, <2>1, <2>3, <3>1 DEF InHand
  <2> QED
    BY <1>11, <2>2, <2>3 DEF InsertBatch, InsertBatchFails
<1>12. CASE Insert(d) \/ InsertFails(d)
  <2>1. s.pc = "fallback" /\ s.left # <<>>
    BY <1>1, <1>12 DEF Insert, InsertFails, DrainerOK
  <2>2. PICK t \in DrainerStates :
           /\ t.pc = s.pc /\ t.item = s.item /\ t.left = s.left /\ t.toInsert = s.toInsert
           /\ Becomes(d, NextInsert(t))
    <3>1. /\ [s EXCEPT !.skipped = @ + 1] \in DrainerStates
          /\ [s EXCEPT !.inserted = @ + 1] \in DrainerStates
      <4>1. s.skipped + 1 \in Nat /\ s.inserted + 1 \in Nat
        BY <1>0 DEF DrainerStates
      <4>2. [s EXCEPT !.skipped = @ + 1] \in DrainerStates
        BY <1>0, <4>1 DEF DrainerStates
      <4>3. [s EXCEPT !.inserted = @ + 1] \in DrainerStates
        BY <1>0, <4>1 DEF DrainerStates
      <4> QED
        BY <4>2, <4>3
    <3> QED
      BY <1>0, <1>12, <3>1 DEF Insert, InsertFails, DrainerStates
  <2>3. /\ HandOK(drainer[d])'
        /\ \A l : InHand(drainer[d], l) => InHand(drainer[d], l)' \/ l = cur
    BY <1>3, <1>6, <2>1, <2>2 DEF InHand
  <2>4. CASE InsertFails(d)
    BY <1>c, <2>3, <2>4 DEF InsertFails, IngestFault
  <2>5. CASE Insert(d)
    <3>1. CASE Refused(Current(d))
      <4>1. cur \in Unstorable \/ Stored(cur)'
        BY <1>3, <1>4, <1>c, <2>1, <3>1 DEF Refused, Stored
      <4> QED
        BY <2>3, <4>1
    <3>2. CASE ~Refused(Current(d))
      <4>1. Stored(cur)'
        BY <1>1, <1>3, <1>c, <2>1, <2>5, <3>2 DEF Insert, InsertRow, Stored
      <4> QED
        BY <2>3, <4>1
    <3> QED
      BY <3>1, <3>2
  <2> QED
    BY <1>12, <2>4, <2>5
<1>13. CASE SettleBatch(d) \/ RequeueFails(d)
  <2>1. s.pc = "settle" /\ Becomes(d, IdleDrainer)
    BY <1>13 DEF SettleBatch, RequeueFails
  <2>2. \A l : ~InHand(s, l)
    BY <1>1, <2>1, ContainsNothing DEF InHand, HandOK
  <2> QED
    BY <1>8, <2>1, <2>2
<1>14. CASE IngestStops(d)
  BY <1>8, <1>14 DEF IngestStops
<1> QED
  BY <1>9, <1>10, <1>11, <1>12, <1>13, <1>14 DEF DrainStep, DrainFails

(* The hands of every loop stay in order.                                  *)
LEMMA HandsKept ==
    ASSUME IngestTypeOK, IngestTypeOK', HandsOK, [Next]_vars
    PROVE  HandsOK'
<1> USE DEF At
<1> SUFFICES ASSUME NEW d \in Drainers
             PROVE  HandOK(drainer[d])'
  BY DEF HandsOK
<1>1. HandOK(drainer[d]) /\ DrainerOK(drainer[d]) /\ drainer \in [Drainers -> DrainerStates]
  BY DEF HandsOK, IngestTypeOK
<1>2. CASE drainer'[d] = drainer[d]
  <2>1. drainer[d].pc = "merge" => Head(drainer[d].left) \in Leads
    BY <1>1 DEF DrainerOK, DrainerStates
  <2>2. ASSUME drainer[d].pc = "merge", NEW l \in Leads, l = Head(drainer[d].left)
        PROVE  drainer[d].found \subseteq SameBusiness(l)'
    BY <1>1, <2>2, StoredStays DEF HandOK
  <2> QED
    BY <1>1, <1>2, <2>1, <2>2 DEF HandOK
<1>3. CASE DequeueBatch(d)
  <2>1. Head(queue) \in Items
    BY <1>3 DEF DequeueBatch, IngestTypeOK
  <2>2. drainer'[d] = [IdleDrainer EXCEPT !.pc = "find", !.item = Head(queue),
                                          !.left = LeadsOf[Head(queue).batch]]
    BY <1>1, <1>3 DEF DequeueBatch, Becomes
  <2>3. /\ drainer'[d].pc = "find" /\ drainer'[d].item = Head(queue)
        /\ drainer'[d].left = LeadsOf[Head(queue).batch] /\ drainer'[d].toInsert = <<>>
    BY <2>2 DEF IdleDrainer
  <2> QED
    BY <2>3, ContainsNothing DEF HandOK
<1>4. CASE DrainStep(d) \/ DrainFails(d)
  BY <1>4, HandStep
<1>5. ASSUME NEW e \in Drainers, e # d, DequeueBatch(e) \/ DrainStep(e) \/ DrainFails(e)
      PROVE  drainer'[d] = drainer[d]
  BY <1>1, <1>5
     DEF DequeueBatch, DrainStep, DrainFails, FindDuplicate, MergeSources, InsertBatch,
         Insert, SettleBatch, FindFails, MergeFails, InsertBatchFails, InsertFails,
         RequeueFails, IngestStops, Becomes
<1> QED
  BY <1>2, <1>3, <1>4, <1>5 DEF Next, Push, vars

LEMMA MissingFinite ==
    /\ IsFiniteSet(Missing) /\ Cardinality(Missing) \in Nat
    /\ IsFiniteSet(Missing') /\ Cardinality(Missing') \in Nat
<1>1. Missing \subseteq Leads /\ Missing' \subseteq Leads
  BY DEF Missing
<1> QED
  BY <1>1, BatchesAssumption, FS_Subset, FS_CardinalityType

(* The missing leads become at most those that the step gives up.          *)
LEMMA MissingGrows ==
    ASSUME NEW X, IsFiniteSet(X), NEW n \in Nat, Cardinality(X) <= n,
           Missing' \subseteq Missing \cup X
    PROVE  Cardinality(Missing') <= Cardinality(Missing) + n
<1>1. /\ IsFiniteSet(Missing \cup X) /\ Cardinality(X) \in Nat
      /\ Cardinality(Missing \cup X) <= Cardinality(Missing) + Cardinality(X)
  <2>1. /\ IsFiniteSet(Missing \cap X) /\ Cardinality(Missing \cap X) \in Nat
        /\ Cardinality(X) \in Nat
    BY MissingFinite, FS_Subset, FS_CardinalityType
  <2>2. Cardinality(Missing \cup X)
            = Cardinality(Missing) + Cardinality(X) - Cardinality(Missing \cap X)
    BY MissingFinite, FS_Union
  <2> QED
    BY <2>1, <2>2, MissingFinite, FS_Union
<1>2. Cardinality(Missing') <= Cardinality(Missing \cup X)
  BY <1>1, FS_Subset
<1> QED
  BY <1>1, <1>2, MissingFinite, FS_CardinalityType

(* A batch that is settled is done with or goes to the end of the list.    *)
LEMMA SettleGrows ==
    ASSUME IngestTypeOK, NEW d \in Drainers, SettleBatch(d)
    PROVE  queue' = queue \/ \E x \in Items : queue' = Append(queue, x)
<1>1. drainer[d].item \in Items
  BY DEF SettleBatch, At, IngestTypeOK, DrainerOK
<1>2. drainer[d].item.try + 1 \in Nat
  BY <1>1 DEF Items
<1>3. [drainer[d].item EXCEPT !.try = @ + 1] \in Items
  BY <1>1, <1>2 DEF Items
<1> QED
  BY <1>3 DEF SettleBatch

(* Only the dequeue shortens the list: every other step leaves it alone or *)
(* appends one item.                                                       *)
LEMMA QueueGrows ==
    ASSUME IngestTypeOK, [Next]_vars, \A d \in Drainers : ~DequeueBatch(d)
    PROVE  queue' = queue \/ \E x \in Items : queue' = Append(queue, x)
<1>1. ASSUME NEW b \in Batches, Push(b)
      PROVE  \E x \in Items : queue' = Append(queue, x)
  <2>1. [batch |-> b, try |-> 0] \in Items
    BY DEF Items
  <2> QED
    BY <1>1, <2>1 DEF Push
<1> QED
  BY <1>1, SettleGrows
     DEF Next, DrainStep, DrainFails, FindDuplicate, MergeSources, InsertBatch, Insert,
         FindFails, MergeFails, InsertBatchFails, InsertFails, RequeueFails,
         IngestStops, vars

(* A batch that is queued stays queued until a loop takes it.              *)
LEMMA QueuedStays ==
    ASSUME IngestTypeOK, [Next]_vars, NEW l, Queued(l),
           \A d \in Drainers : ~DequeueBatch(d)
    PROVE  Queued(l)'
<1>1. PICK i \in 1..Len(queue) : Contains(LeadsOf[queue[i].batch], l)
  BY DEF Queued
<1>2. queue' = queue \/ \E x \in Items : queue' = Append(queue, x)
  BY QueueGrows
<1>3. i \in 1..Len(queue') /\ queue'[i] = queue[i]
  BY <1>1, <1>2 DEF IngestTypeOK
<1> QED
  BY <1>1, <1>3 DEF Queued

LEMMA MissingKept ==
    ASSUME IngestTypeOK, IngestTypeOK', HandsOK, [Next]_vars, MissingBounded
    PROVE  MissingBounded'
<1> USE DEF At
<1>1. /\ faults \in Nat /\ exits \in Nat /\ drainer \in [Drainers -> DrainerStates]
      /\ queue \in Seq(Items) /\ pushes \in [Batches -> Nat]
  BY DEF IngestTypeOK
<1>2. ASSUME NEW X, \A l \in Leads \ Unstorable :
                        Pushed(l)' /\ ~Stored(l)' /\ ~Queued(l)'
                        /\ (\A d \in Drainers : ~InHand(drainer[d], l)')
                        => /\ Pushed(l)
                           /\ l \in X \/ ( /\ ~Queued(l)
                                          /\ \A d \in Drainers : ~InHand(drainer[d], l) )
      PROVE  Missing' \subseteq Missing \cup X
  BY <1>2, StoredStays DEF Missing
<1>3. ASSUME Missing' \subseteq Missing, UNCHANGED <<faults, exits>>
      PROVE  MissingBounded'
  <2>1. Cardinality(Missing') <= Cardinality(Missing)
    BY <1>3, MissingFinite, FS_Subset
  <2>2. MaxBatch * exits \in Nat
    BY <1>1, MaxBatchBound
  <2> QED
    BY <1>1, <1>3, <2>1, <2>2, MissingFinite DEF MissingBounded
<1>4. ASSUME NEW d \in Drainers, DrainStep(d) \/ DrainFails(d)
      PROVE  /\ UNCHANGED pushes
             /\ \A e \in Drainers \ {d} : drainer'[e] = drainer[e]
             /\ \A e \in Drainers : ~DequeueBatch(e)
             /\ \/ UNCHANGED <<faults, exits>>
                \/ faults' = faults + 1 /\ UNCHANGED exits
                \/ exits' = exits + 1 /\ UNCHANGED faults /\ drainer[d].pc # "idle"
  <2>1. /\ UNCHANGED pushes
        /\ \/ UNCHANGED <<faults, exits>>
           \/ faults' = faults + 1 /\ UNCHANGED exits
           \/ exits' = exits + 1 /\ UNCHANGED faults /\ drainer[d].pc # "idle"
    BY <1>4
       DEF DrainStep, DrainFails, FindDuplicate, MergeSources, InsertBatch, Insert,
           SettleBatch, FindFails, MergeFails, InsertBatchFails, InsertFails,
           RequeueFails, IngestStops, NoFault, IngestFault
  <2>2. drainer[d].pc # "idle" /\ \E t : Becomes(d, t)
    BY <1>4
       DEF DrainStep, DrainFails, FindDuplicate, MergeSources, InsertBatch, Insert,
           SettleBatch, FindFails, MergeFails, InsertBatchFails, InsertFails,
           RequeueFails, IngestStops
  <2>3. \A e \in Drainers \ {d} : drainer'[e] = drainer[e]
    BY <1>1, <2>2 DEF Becomes
  <2>4. queue # <<>> => queue' # Tail(queue)
    <3>1. ASSUME NEW x \in Items PROVE queue # <<>> => Append(queue, x) # Tail(queue)
      <4>1. queue # <<>> => Len(Append(queue, x)) # Len(Tail(queue))
        BY <1>1
      <4> QED
        BY <4>1
    <3>2. queue # <<>> => queue # Tail(queue)
      <4>1. queue # <<>> => Len(queue) # Len(Tail(queue))
        BY <1>1
      <4> QED
        BY <4>1
    <3>3. queue' = queue \/ \E x \in Items : queue' = Append(queue, x)
      BY <1>4, SettleGrows
         DEF DrainStep, DrainFails, FindDuplicate, MergeSources, InsertBatch, Insert,
             FindFails, MergeFails, InsertBatchFails, InsertFails, RequeueFails,
             IngestStops
    <3> QED
      BY <3>1, <3>2, <3>3
  <2>5. \A e \in Drainers : ~DequeueBatch(e)
    BY <1>1, <2>4 DEF DequeueBatch
  <2> QED
    BY <2>1, <2>3, <2>5
<1>5. ASSUME NEW d \in Drainers, DrainStep(d) \/ DrainFails(d), NEW X,
             \A l \in Leads \ Unstorable : InHand(drainer[d], l) =>
                 InHand(drainer[d], l)' \/ Stored(l)' \/ l \in X
      PROVE  Missing' \subseteq Missing \cup X
  <2>1. \A l \in Leads : Pushed(l)' = Pushed(l)
    BY <1>4, <1>5 DEF Pushed
  <2>2. \A l \in Leads : Queued(l) => Queued(l)'
    BY <1>4, <1>5, QueuedStays
  <2>3. \A l \in Leads \ Unstorable, e \in Drainers :
            InHand(drainer[e], l) => InHand(drainer[e], l)' \/ Stored(l)' \/ l \in X
    BY <1>4, <1>5 DEF InHand
  <2> QED
    BY <1>2, <2>1, <2>2, <2>3
<1>6. ASSUME NEW d \in Drainers, DrainStep(d) \/ DrainFails(d)
      PROVE  MissingBounded'
  <2>1. PICK cur : cur = Current(d)
    OBVIOUS
  <2>2. \A l \in Leads \ Unstorable : InHand(drainer[d], l) =>
            \/ InHand(drainer[d], l)' \/ Stored(l)'
            \/ l = cur /\ faults' = faults + 1 /\ UNCHANGED exits
            \/ exits' = exits + 1 /\ UNCHANGED faults
    BY <1>6, <2>1, HandStep
  <2>3. CASE UNCHANGED <<faults, exits>>
    <3>1. Missing' \subseteq Missing \cup {}
      BY <1>1, <1>5, <1>6, <2>2, <2>3
    <3> QED
      BY <1>3, <2>3, <3>1
  <2>4. CASE faults' = faults + 1 /\ UNCHANGED exits
    <3>0. \A l \in Leads \ Unstorable : InHand(drainer[d], l) =>
              InHand(drainer[d], l)' \/ Stored(l)' \/ l \in {cur}
      BY <1>1, <2>2, <2>4
    <3>1. Missing' \subseteq Missing \cup {cur}
      BY <1>5, <1>6, <3>0
    <3>2. IsFiniteSet({cur}) /\ Cardinality({cur}) = 1
      BY FS_Singleton
    <3>3. Cardinality(Missing') <= Cardinality(Missing) + 1
      BY <3>1, <3>2, MissingGrows
    <3>4. MaxBatch * exits \in Nat
      BY <1>1, MaxBatchBound
    <3> QED
      BY <1>1, <2>4, <3>3, <3>4, MissingFinite DEF MissingBounded
  <2>5. CASE exits' = exits + 1 /\ UNCHANGED faults /\ drainer[d].pc # "idle"
    <3> DEFINE X == {l \in Leads : Contains(LeadsOf[Batch(d)], l)}
    <3>1. Batch(d) \in Batches
      BY <2>5 DEF Batch, IngestTypeOK, DrainerOK, Items
    <3>2. \A l \in Leads : InHand(drainer[d], l) => l \in X
      BY DEF HandsOK, HandOK, InHand, Batch
    <3>3. PICK Y : Y = X
      OBVIOUS
    <3>4. Missing' \subseteq Missing \cup Y
      BY <1>5, <1>6, <3>2, <3>3
    <3>5. IsFiniteSet(Y) /\ Cardinality(Y) <= Len(LeadsOf[Batch(d)])
      BY <3>1, <3>3, BatchLeads, ElementsBounded
    <3>6. IsFiniteSet(Y) /\ Cardinality(Y) <= MaxBatch
      BY <3>1, <3>5, MaxBatchBound, FS_CardinalityType
    <3>7. Cardinality(Missing') <= Cardinality(Missing) + MaxBatch
      BY <3>4, <3>6, MaxBatchBound, MissingGrows
    <3>8. MaxBatch * (exits + 1) = MaxBatch * exits + MaxBatch /\ MaxBatch * exits \in Nat
      BY <1>1, MaxBatchBound
    <3> QED
      BY <1>1, <2>5, <3>7, <3>8, MissingFinite, MaxBatchBound DEF MissingBounded
  <2> QED
    BY <1>4, <1>6, <2>3, <2>4, <2>5
<1>7. ASSUME NEW d \in Drainers, DequeueBatch(d)
      PROVE  MissingBounded'
  <2>1. drainer[d].pc = "idle" /\ queue # <<>> /\ queue' = Tail(queue) /\ UNCHANGED pushes
    BY <1>7 DEF DequeueBatch
  <2>2. drainer'[d] = [IdleDrainer EXCEPT !.pc = "find", !.item = Head(queue),
                                          !.left = LeadsOf[Head(queue).batch]]
    BY <1>1, <1>7 DEF DequeueBatch, Becomes
  <2>3. drainer'[d].pc = "find" /\ drainer'[d].left = LeadsOf[queue[1].batch]
    BY <1>1, <2>1, <2>2 DEF IdleDrainer
  <2>4. \A e \in Drainers \ {d} : drainer'[e] = drainer[e]
    BY <1>1, <1>7 DEF DequeueBatch, Becomes
  <2>5. ASSUME NEW l \in Leads, Queued(l)
        PROVE  Queued(l)' \/ InHand(drainer[d], l)'
    <3>1. PICK i \in 1..Len(queue) : Contains(LeadsOf[queue[i].batch], l)
      BY <2>5 DEF Queued
    <3>2. CASE i = 1
      BY <2>3, <3>1, <3>2 DEF InHand
    <3>3. CASE i # 1
      <4>1. i - 1 \in 1..Len(queue') /\ queue'[i - 1] = queue[i]
        BY <1>1, <2>1, <3>3
      <4> QED
        BY <3>1, <4>1 DEF Queued
    <3> QED
      BY <3>2, <3>3
  <2>6. \A l \in Leads, e \in Drainers : InHand(drainer[e], l) => InHand(drainer[e], l)'
    BY <2>1, <2>4 DEF InHand
  <2>7. \A l \in Leads : Pushed(l)' = Pushed(l)
    BY <2>1 DEF Pushed
  <2>8. Missing' \subseteq Missing \cup {}
    BY <1>2, <2>5, <2>6, <2>7
  <2> QED
    BY <1>3, <1>7, <2>8 DEF DequeueBatch, NoFault
<1>8. ASSUME NEW b \in Batches, Push(b)
      PROVE  MissingBounded'
  <2> DEFINE x == [batch |-> b, try |-> 0]
  <2>1. /\ queue' = Append(queue, x) /\ x.batch = b /\ UNCHANGED <<drainer, faults, exits>>
        /\ \A a \in Batches : a # b => pushes'[a] = pushes[a]
    BY <1>1, <1>8 DEF Push
  <2> HIDE DEF x
  <2>2. /\ Len(queue) \in Nat /\ Len(queue') = Len(queue) + 1
        /\ queue'[Len(queue) + 1] = x
    BY <1>1, <2>1
  <2>3. \A l : Contains(LeadsOf[b], l) => Queued(l)'
    <3>1. Len(queue) + 1 \in 1..Len(queue')
      BY <2>2
    <3> QED
      BY <2>1, <2>2, <3>1 DEF Queued
  <2>4. \A l \in Leads : Pushed(l)' => Pushed(l) \/ Queued(l)'
    BY <2>1, <2>3 DEF Pushed
  <2>5. \A d \in Drainers : ~DequeueBatch(d)
    BY <1>1, <2>2 DEF DequeueBatch
  <2>6. \A l \in Leads : Queued(l) => Queued(l)'
    BY <2>5, QueuedStays
  <2>7. Missing' \subseteq Missing \cup {}
    BY <1>2, <2>1, <2>4, <2>6 DEF InHand
  <2> QED
    BY <1>3, <2>1, <2>7
<1>9. CASE UNCHANGED vars
  <2>1. Missing' = Missing
    BY <1>9 DEF vars, Missing, Pushed, Stored, SameBusiness, Queued, InHand
  <2> QED
    BY <1>3, <1>9, <2>1 DEF vars
<1> QED
  BY <1>6, <1>7, <1>8, <1>9 DEF Next

(* However many instances drain the list, a failed call costs one lead at  *)
(* most and the exit of a process the leads of one batch: whatever else is *)
(* pushed is stored, queued or in the hands of a loop.                     *)
THEOREM LossesAreBounded == Spec => []LossesBounded
<1>1. Init => HandsOK /\ MissingBounded
  <2> SUFFICES ASSUME Init
               PROVE  HandsOK /\ MissingBounded
    OBVIOUS
  <2>1. HandsOK
    BY DEF Init, HandsOK, HandOK, IdleDrainer
  <2>2. Missing = {}
    BY DEF Init, Missing, Pushed
  <2> QED
    BY <2>1, <2>2, FS_EmptySet, MaxBatchBound DEF Init, MissingBounded
<1>2. HandsOK /\ MissingBounded /\ IngestTypeOK => LossesBounded
  <2> SUFFICES ASSUME HandsOK, MissingBounded, IngestTypeOK
               PROVE  LossesBounded
    OBVIOUS
  <2>1. Lost \subseteq Missing
    BY DEF Lost, Missing, Underway, Queued, InHand, HandsOK, HandOK, At, Batch
  <2>2. Cardinality(Lost) <= Cardinality(Missing)
    BY <2>1, MissingFinite, FS_Subset
  <2>3. Cardinality(Lost) \in Nat
    BY <2>1, MissingFinite, FS_Subset, FS_CardinalityType
  <2>4. MaxBatch * exits \in Nat /\ faults \in Nat
    BY MaxBatchBound DEF IngestTypeOK
  <2> QED
    BY <2>2, <2>3, <2>4, MissingFinite DEF MissingBounded, LossesBounded
<1> QED
  BY <1>1, <1>2, HandsKept, MissingKept, IngestTypeCorrect, PTL DEF Spec

-----------------------------------------------------------------------------
(***************************************************************************)
(* A batch of one lead that meets no failure keeps its source.             *)
(*                                                                         *)
(* The only danger is a lost race: the lookup finds nothing, another       *)
(* instance inserts the business, and both INSERTs of this one are         *)
(* refused.  The batch is then skipped as a whole and queued again, and    *)
(* the second lookup finds the row, because the row that refused the       *)
(* INSERT stays.  So an item that was queued again always has a row to     *)
(* merge into, and it never needs a second retry.                          *)
(***************************************************************************)
LoneBatch(b, l) == l \in Leads \ Unstorable /\ LeadsOf[b] = <<l>> /\ ContactsOf[l] # {}

Known(b, l) == \E m \in SameBusiness(l) : SourceOf[b] \in sources[m]

FirstTry(item, l) == item.try > 0 => SameBusiness(l) # {}

(* Where a loop stands that has the batch in hand.                         *)
LoneHand(s, b, l) ==
    s.pc # "idle" /\ s.item.batch = b =>
        \/ /\ s.pc = "find" /\ s.left = <<l>> /\ s.toInsert = <<>>
           /\ s.inserted = 0 /\ s.merged = 0 /\ s.skipped = 0 /\ FirstTry(s.item, l)
        \/ /\ s.pc = "merge" /\ s.left = <<l>> /\ s.toInsert = <<>>
           /\ s.found \subseteq SameBusiness(l)
        \/ /\ s.pc = "insert" /\ s.left = <<l>> /\ s.toInsert = <<l>>
           /\ s.merged = 0 /\ s.skipped = 0 /\ s.item.try = 0
        \/ /\ s.pc = "fallback" /\ s.left = <<l>> /\ s.item.try = 0
           /\ s.inserted = 0 /\ s.merged = 0 /\ s.skipped = 0
        \/ /\ s.pc = "settle"
           /\ \/ Known(b, l)
              \/ /\ s.inserted = 0 /\ s.merged = 0 /\ s.skipped = 1
                 /\ s.item.try = 0 /\ SameBusiness(l) # {}

InQueue(b) == \E i \in 1..Len(queue) : queue[i].batch = b

LoneKept(b, l) ==
    /\ pushes[b] > 0 => \/ Known(b, l) \/ InQueue(b)
                        \/ \E d \in Drainers : drainer[d].pc # "idle" /\ Batch(d) = b
    /\ \A i \in 1..Len(queue) : queue[i].batch = b => FirstTry(queue[i], l)
    /\ \A d \in Drainers : LoneHand(drainer[d], b, l)

LoneBatchesKept ==
    faults + exits = 0 =>
        \A b \in Batches, l \in Leads : LoneBatch(b, l) => LoneKept(b, l)

(* The sources of the rows of a business only grow: no row of a known      *)
(* business is inserted again.                                             *)
LEMMA KnownStays ==
    ASSUME IngestTypeOK, IngestTypeOK', [Next]_vars, NEW b \in Batches, NEW l \in Leads
    PROVE  Known(b, l) => Known(b, l)'
<1>1. ASSUME NEW m \in SameBusiness(l)
      PROVE  m \in SameBusiness(l)' /\ sources[m] \subseteq sources'[m]
  <2>1. m \in SameBusiness(l)' /\ m \in Leads /\ rows[m] > 0 /\ ContactsOf[m] # {}
    BY <1>1, StoredStays DEF SameBusiness
  <2>2. ASSUME NEW k \in Leads, ~Refused(k), NEW source, InsertRow(k, source)
        PROVE  sources'[m] = sources[m]
    <3>1. m # k
      BY <2>1, <2>2 DEF Refused, SameBusiness
    <3> QED
      BY <2>1, <2>2, <3>1 DEF InsertRow, IngestTypeOK
  <2>3. ASSUME NEW d \in Drainers, InsertBatch(d) \/ Insert(d)
        PROVE  sources'[m] = sources[m]
    <3>1. Current(d) \in Leads
      BY <2>3, SMTT(30) DEF InsertBatch, Insert, At, Current, IngestTypeOK, DrainerOK, DrainerStates
    <3> QED
      BY <2>2, <2>3, <3>1 DEF InsertBatch, Insert, NoRow
  <2>4. ASSUME NEW d \in Drainers, MergeSources(d)
        PROVE  sources[m] \subseteq sources'[m]
    BY <2>1, <2>4 DEF MergeSources
  <2> QED
    BY <2>1, <2>3, <2>4
       DEF Next, DrainStep, DrainFails, Push, DequeueBatch, FindDuplicate, SettleBatch,
           FindFails, MergeFails, InsertBatchFails, InsertFails, RequeueFails,
           IngestStops, NoRow, vars
<1> QED
  BY <1>1 DEF Known

(* What a lone lead's loop does next.                                      *)
LEMMA LoneHandStep ==
    ASSUME IngestTypeOK, IngestTypeOK', [Next]_vars, NEW b \in Batches, NEW l \in Leads,
           LoneBatch(b, l), NEW d \in Drainers, LoneHand(drainer[d], b, l), DrainStep(d),
           drainer[d].item.batch = b
    PROVE  /\ LoneHand(drainer[d], b, l)'
           /\ \/ drainer'[d].pc # "idle" /\ drainer'[d].item = drainer[d].item
              \/ /\ SettleBatch(d)
                 /\ \/ Known(b, l)
                    \/ /\ SameBusiness(l) # {} /\ NothingStored(d)
                       /\ drainer[d].item.try = 0
<1> USE DEF At
<1> DEFINE s == drainer[d]
<1>1. /\ s \in DrainerStates /\ DrainerOK(s) /\ s.pc # "idle" /\ s.item \in Items
      /\ drainer \in [Drainers -> DrainerStates] /\ rows \in [Leads -> Nat]
  BY DEF IngestTypeOK, DrainStep, FindDuplicate, MergeSources, InsertBatch, Insert,
         SettleBatch, DrainerOK
<1>2. ASSUME NEW t, Becomes(d, t)
      PROVE  drainer'[d] = t
  BY <1>1, <1>2 DEF Becomes
<1>3. /\ SameBusiness(l) \subseteq SameBusiness(l)'
      /\ Known(b, l) => Known(b, l)'
  BY StoredStays, KnownStays
<1>4. /\ <<l>> # <<>> /\ Tail(<<l>>) = <<>> /\ Head(<<l>>) = l /\ Len(<<l>>) = 1
      /\ Append(<<>>, l) = <<l>> /\ Append(<<>>, l) \in Seq(Leads)
  OBVIOUS
<1>5. ASSUME NEW t \in DrainerStates, t.left = <<l>>
      PROVE  /\ t.toInsert = <<>> => NextLead(t).pc = "settle"
             /\ t.toInsert = <<l>> => /\ NextLead(t).pc = "insert"
                                      /\ NextLead(t).left = <<l>>
             /\ NextLead(t).item = t.item /\ NextLead(t).toInsert = t.toInsert
             /\ NextLead(t).merged = t.merged /\ NextLead(t).skipped = t.skipped
             /\ NextInsert(t).pc = "settle" /\ NextInsert(t).item = t.item
             /\ NextInsert(t).inserted = t.inserted /\ NextInsert(t).merged = t.merged
             /\ NextInsert(t).skipped = t.skipped
             /\ NextLead(t).inserted = Len(t.toInsert)
  <2> DEFINE pc == IF t.toInsert = <<>> THEN "settle" ELSE "insert"
  <2>1. NextLead(t) = [t EXCEPT !.pc = pc, !.left = t.toInsert, !.found = {},
                                !.inserted = Len(t.toInsert)]
    BY <1>4, <1>5 DEF NextLead
  <2>2. NextInsert(t) = [t EXCEPT !.pc = "settle", !.left = <<>>]
    BY <1>4, <1>5 DEF NextInsert
  <2> QED
    BY <1>4, <1>5, <2>1, <2>2 DEF DrainerStates
<1>6. CASE FindDuplicate(d)
  <2>1. /\ s.pc = "find" /\ s.left = <<l>> /\ s.toInsert = <<>> /\ Current(d) = l
        /\ s.inserted = 0 /\ s.merged = 0 /\ s.skipped = 0 /\ FirstTry(s.item, l)
    BY <1>1, <1>4, <1>6 DEF FindDuplicate, LoneHand, Current
  <2>2. ASSUME NEW m \in SameBusiness(l),
               Becomes(d, [s EXCEPT !.pc = "merge", !.found = {m}])
        PROVE  LoneHand(drainer[d], b, l)' /\ drainer'[d].pc # "idle"
               /\ drainer'[d].item = s.item
    <3>1. /\ drainer'[d].pc = "merge" /\ drainer'[d].found = {m}
          /\ drainer'[d].item = s.item /\ drainer'[d].left = s.left
          /\ drainer'[d].toInsert = s.toInsert
      BY <1>1, <1>2, <2>2 DEF DrainerStates
    <3> QED
      BY <1>3, <2>1, <2>2, <3>1 DEF LoneHand
  <2>3. ASSUME SameBusiness(l) = {},
               Becomes(d, NextLead([s EXCEPT !.toInsert = Append(@, Current(d))]))
        PROVE  LoneHand(drainer[d], b, l)' /\ drainer'[d].pc # "idle"
               /\ drainer'[d].item = s.item
    <3> DEFINE t == [s EXCEPT !.toInsert = <<l>>]
    <3>1. /\ t \in DrainerStates /\ t.item = s.item /\ t.left = <<l>>
          /\ t.toInsert = <<l>> /\ t.merged = 0 /\ t.skipped = 0
      BY <1>1, <1>4, <2>1 DEF DrainerStates
    <3>2. drainer'[d] = NextLead(t)
      BY <1>2, <1>4, <2>1, <2>3
    <3>3. s.item.try = 0
      BY <1>1, <2>1, <2>3 DEF FirstTry, Items
    <3> HIDE DEF t
    <3> QED
      BY <1>5, <3>1, <3>2, <3>3 DEF LoneHand
  <2> QED
    BY <1>6, <2>1, <2>2, <2>3 DEF FindDuplicate
<1>7. CASE MergeSources(d)
  <2>1. /\ s.pc = "merge" /\ s.left = <<l>> /\ s.toInsert = <<>>
        /\ s.found \subseteq SameBusiness(l) /\ s.found # {}
    BY <1>1, <1>7 DEF MergeSources, LoneHand, DrainerOK
  <2>2. Known(b, l)'
    <3>1. PICK m : m \in s.found
      BY <2>1
    <3>2. m \in Leads /\ m \in SameBusiness(l)'
      BY <1>3, <2>1, <3>1 DEF SameBusiness
    <3>3. SourceOf[b] \in sources'[m]
      BY <1>7, <3>1, <3>2 DEF MergeSources, Batch
    <3> QED
      BY <3>2, <3>3 DEF Known
  <2> DEFINE t == [s EXCEPT !.merged = s.merged + 1]
  <2>3. t \in DrainerStates /\ t.item = s.item /\ t.left = <<l>> /\ t.toInsert = <<>>
    <3>1. s.merged + 1 \in Nat
      BY <1>1 DEF DrainerStates
    <3> QED
      BY <1>1, <2>1, <3>1 DEF DrainerStates
  <2>4. drainer'[d] = NextLead(t)
    BY <1>2, <1>7 DEF MergeSources
  <2> HIDE DEF t
  <2> QED
    BY <1>5, <2>2, <2>3, <2>4 DEF LoneHand
<1>8. ASSUME ~Refused(l), InsertRow(l, SourceOf[b])
      PROVE  Known(b, l)'
  <2>1. rows'[l] > 0 /\ sources'[l] = {SourceOf[b]} /\ ContactsOf[l] # {}
    BY <1>1, <1>8 DEF InsertRow, IngestTypeOK, LoneBatch
  <2> QED
    BY <2>1 DEF Known, SameBusiness
<1>9. Refused(l) <=> SameBusiness(l) # {}
  BY DEF Refused, LoneBatch
<1>10. CASE InsertBatch(d)
  <2>1. /\ s.pc = "insert" /\ s.left = <<l>> /\ s.toInsert = <<l>> /\ Current(d) = l
        /\ s.merged = 0 /\ s.skipped = 0 /\ s.item.try = 0
    BY <1>1, <1>4, <1>10 DEF InsertBatch, LoneHand, Current
  <2>2. CASE Refused(l)
    <3>1. Becomes(d, [s EXCEPT !.pc = "fallback", !.left = s.toInsert, !.inserted = 0])
      BY <1>10, <2>1, <2>2 DEF InsertBatch, FallBack
    <3>2. /\ drainer'[d].pc = "fallback" /\ drainer'[d].left = <<l>>
          /\ drainer'[d].item = s.item /\ drainer'[d].inserted = 0
          /\ drainer'[d].merged = 0 /\ drainer'[d].skipped = 0
      BY <1>1, <1>2, <2>1, <3>1 DEF DrainerStates
    <3> QED
      BY <2>1, <3>2 DEF LoneHand
  <2>3. CASE ~Refused(l)
    <3>1. drainer'[d] = NextInsert(s) /\ Known(b, l)'
      BY <1>2, <1>8, <1>10, <2>1, <2>3 DEF InsertBatch, Batch
    <3> QED
      BY <1>1, <1>5, <2>1, <3>1 DEF LoneHand
  <2> QED
    BY <2>2, <2>3
<1>11. CASE Insert(d)
  <2>1. /\ s.pc = "fallback" /\ s.left = <<l>> /\ Current(d) = l
        /\ s.inserted = 0 /\ s.merged = 0 /\ s.skipped = 0 /\ s.item.try = 0
    BY <1>1, <1>4, <1>11 DEF Insert, LoneHand, Current
  <2>2. CASE Refused(l)
    <3> DEFINE t == [s EXCEPT !.skipped = 1]
    <3>1. /\ t \in DrainerStates /\ t.item = s.item /\ t.left = <<l>>
          /\ t.inserted = 0 /\ t.merged = 0 /\ t.skipped = 1
      BY <1>1, <2>1 DEF DrainerStates
    <3>2. drainer'[d] = NextInsert(t)
      BY <1>2, <1>11, <2>1, <2>2 DEF Insert
    <3>3. SameBusiness(l)' # {}
      BY <1>3, <1>9, <2>2
    <3> HIDE DEF t
    <3> QED
      BY <1>5, <2>1, <3>1, <3>2, <3>3 DEF LoneHand
  <2>3. CASE ~Refused(l)
    <3> DEFINE t == [s EXCEPT !.inserted = 1]
    <3>1. t \in DrainerStates /\ t.item = s.item /\ t.left = <<l>>
      BY <1>1, <2>1 DEF DrainerStates
    <3>2. drainer'[d] = NextInsert(t) /\ Known(b, l)'
      BY <1>2, <1>8, <1>11, <2>1, <2>3 DEF Insert, Batch
    <3> HIDE DEF t
    <3> QED
      BY <1>5, <3>1, <3>2 DEF LoneHand
  <2> QED
    BY <2>2, <2>3
<1>12. CASE SettleBatch(d)
  <2>1. s.pc = "settle" /\ drainer'[d] = IdleDrainer
    BY <1>2, <1>12 DEF SettleBatch
  <2>2. LoneHand(drainer[d], b, l)'
    BY <2>1 DEF LoneHand, IdleDrainer
  <2>3. \/ Known(b, l)
        \/ /\ s.inserted = 0 /\ s.merged = 0 /\ s.skipped = 1
           /\ s.item.try = 0 /\ SameBusiness(l) # {}
    BY <1>1, <2>1 DEF LoneHand
  <2>4. Len(LeadsOf[Batch(d)]) = 1
    BY <1>4 DEF LoneBatch, Batch
  <2> QED
    BY <1>12, <2>2, <2>3, <2>4 DEF NothingStored
<1> QED
  BY <1>6, <1>7, <1>10, <1>11, <1>12 DEF DrainStep

(* A loop keeps its batch until it has settled it.                         *)
LEMMA ItemKept ==
    ASSUME IngestTypeOK, NEW d \in Drainers, DrainStep(d)
    PROVE  \/ UNCHANGED queue /\ drainer'[d].pc # "idle" /\ drainer'[d].item = drainer[d].item
           \/ SettleBatch(d) /\ drainer'[d] = IdleDrainer
<1> USE DEF At
<1> DEFINE s == drainer[d]
<1>1. s \in DrainerStates /\ drainer \in [Drainers -> DrainerStates] /\ DrainerOK(s)
  BY DEF IngestTypeOK
<1>2. ASSUME NEW t, Becomes(d, t)
      PROVE  drainer'[d] = t
  BY <1>1, <1>2 DEF Becomes
<1>3. ASSUME NEW t \in DrainerStates, t.pc # "idle"
      PROVE  /\ NextLead(t).item = t.item /\ NextLead(t).pc # "idle"
             /\ NextInsert(t).item = t.item /\ NextInsert(t).pc # "idle"
             /\ FallBack(t).item = t.item /\ FallBack(t).pc # "idle"
  <2>1. NextInsert(t).item = t.item /\ NextInsert(t).pc # "idle"
    BY <1>3 DEF NextInsert, DrainerStates
  <2>2. FallBack(t).item = t.item /\ FallBack(t).pc # "idle"
    BY <1>3 DEF FallBack, DrainerStates
  <2>3. NextLead(t).item = t.item /\ NextLead(t).pc # "idle"
    BY <1>3 DEF NextLead, DrainerStates
  <2> QED
    BY <2>1, <2>2, <2>3
<1>4. /\ s.skipped + 1 \in Nat /\ s.merged + 1 \in Nat /\ s.inserted + 1 \in Nat
      /\ s.left # <<>> /\ s.left \in Seq(Leads) /\ s.toInsert \in Seq(Leads)
             => Append(s.toInsert, Current(d)) \in Seq(Leads)
  <2>1. s.left # <<>> /\ s.left \in Seq(Leads) => Current(d) \in Leads
    BY DEF Current
  <2> QED
    BY <1>1, <2>1 DEF DrainerStates
<1>5. CASE FindDuplicate(d)
  <2>1. ASSUME NEW m, Becomes(d, [s EXCEPT !.pc = "merge", !.found = {m}])
        PROVE  drainer'[d].pc # "idle" /\ drainer'[d].item = s.item
    BY <1>1, <1>2, <2>1 DEF DrainerStates
  <2>2. ASSUME Becomes(d, NextLead([s EXCEPT !.toInsert = Append(@, Current(d))]))
        PROVE  drainer'[d].pc # "idle" /\ drainer'[d].item = s.item
    <3> DEFINE t == [s EXCEPT !.toInsert = Append(s.toInsert, Current(d))]
    <3>1. t \in DrainerStates /\ t.pc # "idle" /\ t.item = s.item
      BY <1>1, <1>4, <1>5 DEF FindDuplicate, DrainerOK, DrainerStates
    <3>2. drainer'[d] = NextLead(t)
      BY <1>2, <2>2
    <3> HIDE DEF t
    <3> QED
      BY <1>3, <3>1, <3>2
  <2> QED
    BY <1>5, <2>1, <2>2 DEF FindDuplicate
<1>6. CASE MergeSources(d)
  <2> DEFINE t == [s EXCEPT !.merged = s.merged + 1]
  <2>1. t \in DrainerStates /\ t.pc # "idle" /\ t.item = s.item
    BY <1>1, <1>4, <1>6 DEF MergeSources, DrainerStates
  <2>2. drainer'[d] = NextLead(t)
    BY <1>2, <1>6 DEF MergeSources
  <2> HIDE DEF t
  <2> QED
    BY <1>3, <1>6, <2>1, <2>2 DEF MergeSources
<1>7. CASE InsertBatch(d)
  BY <1>1, <1>2, <1>3, <1>7 DEF InsertBatch
<1>8. CASE Insert(d)
  <2> DEFINE t == [s EXCEPT !.skipped = s.skipped + 1]
             u == [s EXCEPT !.inserted = s.inserted + 1]
  <2>1. t \in DrainerStates /\ t.pc # "idle" /\ t.item = s.item
    BY <1>1, <1>4, <1>8 DEF Insert, DrainerStates
  <2>2. u \in DrainerStates /\ u.pc # "idle" /\ u.item = s.item
    BY <1>1, <1>4, <1>8 DEF Insert, DrainerStates
  <2>3. drainer'[d] = NextInsert(t) \/ drainer'[d] = NextInsert(u)
    BY <1>2, <1>8 DEF Insert
  <2> HIDE DEF t, u
  <2> QED
    BY <1>3, <1>8, <2>1, <2>2, <2>3 DEF Insert
<1>9. CASE SettleBatch(d)
  BY <1>2, <1>9 DEF SettleBatch
<1> QED
  BY <1>5, <1>6, <1>7, <1>8, <1>9 DEF DrainStep

(* A step that is no failure leaves the batch of a lone lead in the list   *)
(* or in hand, or its source known.                                        *)
LEMMA LoneKeptNext ==
    ASSUME MaxRetryAttempts # 0, IngestTypeOK, IngestTypeOK', [Next]_vars,
           NEW b \in Batches, NEW l \in Leads, LoneBatch(b, l), LoneKept(b, l),
           ~ \E d \in Drainers : DrainFails(d)
    PROVE  LoneKept(b, l)'
<1> USE DEF At
<1>1. /\ queue \in Seq(Items) /\ pushes \in [Batches -> Nat]
      /\ drainer \in [Drainers -> DrainerStates]
  BY DEF IngestTypeOK
<1>2. /\ SameBusiness(l) \subseteq SameBusiness(l)'
      /\ Known(b, l) => Known(b, l)'
  BY StoredStays, KnownStays
<1>3. \A d \in Drainers : LoneHand(drainer[d], b, l) /\ drainer'[d] = drainer[d]
                          => LoneHand(drainer[d], b, l)'
  <2>1. ASSUME NEW d \in Drainers, LoneHand(drainer[d], b, l), drainer'[d] = drainer[d]
        PROVE  LoneHand(drainer[d], b, l)'
    BY <1>2, <2>1 DEF LoneHand, FirstTry
  <2> QED
    BY <2>1
<1>4. ASSUME NEW x \in Items
      PROVE  /\ Len(Append(queue, x)) = Len(queue) + 1
             /\ \A i \in 1..Len(queue) : Append(queue, x)[i] = queue[i]
             /\ Append(queue, x)[Len(queue) + 1] = x
  BY <1>1
<1>5. ASSUME \A d \in Drainers : drainer'[d] = drainer[d], UNCHANGED <<queue, pushes>>
      PROVE  LoneKept(b, l)'
  BY <1>2, <1>3, <1>5 DEF LoneKept, FirstTry, InQueue, Batch
<1>6. ASSUME NEW a \in Batches, Push(a)
      PROVE  LoneKept(b, l)'
  <2> DEFINE x == [batch |-> a, try |-> 0]
  <2>1. x \in Items /\ x.batch = a /\ x.try = 0
    BY DEF Items
  <2>2. queue' = Append(queue, x) /\ UNCHANGED drainer
    BY <1>6 DEF Push
  <2>3. Len(queue) \in Nat
    BY <1>1
  <2> HIDE DEF x
  <2>4. \A i \in 1..Len(queue') : \/ i \in 1..Len(queue) /\ queue'[i] = queue[i]
                                  \/ queue'[i] = x
    BY <1>4, <2>1, <2>2, <2>3
  <2>5. \A i \in 1..Len(queue') : queue'[i].batch = b => FirstTry(queue[i], l)'
    BY <1>2, <2>1, <2>4 DEF LoneKept, FirstTry
  <2>6. a = b => InQueue(b)'
    BY <1>4, <2>1, <2>2, <2>3 DEF InQueue
  <2>7. InQueue(b) => InQueue(b)'
    BY <1>4, <2>1, <2>2, <2>3 DEF InQueue
  <2>8. a # b => pushes'[b] = pushes[b]
    BY <1>1, <1>6 DEF Push
  <2> QED
    BY <1>2, <1>3, <2>2, <2>5, <2>6, <2>7, <2>8 DEF LoneKept, Batch
<1>7. ASSUME NEW d \in Drainers, DequeueBatch(d)
      PROVE  LoneKept(b, l)'
  <2>1. /\ queue # <<>> /\ queue' = Tail(queue) /\ UNCHANGED pushes
        /\ drainer[d].pc = "idle"
    BY <1>7 DEF DequeueBatch
  <2>2. PICK h : h = Head(queue)
    OBVIOUS
  <2>3. /\ h = queue[1] /\ h \in Items /\ 1 \in 1..Len(queue)
        /\ Len(Tail(queue)) = Len(queue) - 1
        /\ \A i \in 1..Len(queue) - 1 : Tail(queue)[i] = queue[i + 1]
        /\ Len(queue) \in Nat
    BY <1>1, <2>1, <2>2
  <2>4. /\ drainer'[d].pc = "find" /\ drainer'[d].item = h
        /\ drainer'[d].left = LeadsOf[h.batch] /\ drainer'[d].toInsert = <<>>
        /\ drainer'[d].inserted = 0 /\ drainer'[d].merged = 0 /\ drainer'[d].skipped = 0
        /\ \A e \in Drainers \ {d} : drainer'[e] = drainer[e]
    BY <1>1, <1>7, <2>2 DEF DequeueBatch, Becomes, IdleDrainer
  <2>5. \A i \in 1..Len(queue') : i + 1 \in 1..Len(queue) /\ queue'[i] = queue[i + 1]
    BY <2>1, <2>3
  <2>6. \A i \in 1..Len(queue') : queue'[i].batch = b => FirstTry(queue[i], l)'
    BY <1>2, <2>5 DEF LoneKept, FirstTry
  <2>7. h.batch = b => FirstTry(h, l)'
    BY <1>2, <2>3 DEF LoneKept, FirstTry
  <2>8. LoneHand(drainer[d], b, l)'
    BY <2>4, <2>7 DEF LoneHand, FirstTry, LoneBatch
  <2>9. \A e \in Drainers : LoneHand(drainer[e], b, l)'
    BY <1>3, <2>4, <2>8 DEF LoneKept
  <2>10. InQueue(b) => InQueue(b)' \/ h.batch = b
    <3>1. ASSUME NEW i \in 1..Len(queue), queue[i].batch = b
          PROVE  InQueue(b)' \/ h.batch = b
      <4>1. CASE i = 1
        BY <2>3, <3>1, <4>1
      <4>2. CASE i # 1
        <5>1. i - 1 \in 1..Len(queue') /\ queue'[i - 1] = queue[i]
          BY <2>1, <2>3, <4>2
        <5> QED
          BY <3>1, <5>1 DEF InQueue
      <4> QED
        BY <4>1, <4>2
    <3> QED
      BY <3>1 DEF InQueue
  <2>11. h.batch = b => (drainer[d].pc # "idle" /\ Batch(d) = b)'
    BY <2>4 DEF Batch
  <2>12. \A e \in Drainers : drainer[e].pc # "idle" /\ Batch(e) = b
                             => (drainer[e].pc # "idle" /\ Batch(e) = b)'
    BY <2>1, <2>4 DEF Batch
  <2>13. pushes'[b] > 0 => \/ Known(b, l)' \/ InQueue(b)'
                           \/ \E e \in Drainers : (drainer[e].pc # "idle" /\ Batch(e) = b)'
    BY <1>2, <2>1, <2>10, <2>11, <2>12 DEF LoneKept
  <2> QED
    BY <2>6, <2>9, <2>13 DEF LoneKept
<1>8. ASSUME NEW d \in Drainers, DrainStep(d)
      PROVE  LoneKept(b, l)'
  <2>1. UNCHANGED pushes /\ drainer[d].pc # "idle" /\ drainer[d].item \in Items
        /\ \E t : Becomes(d, t)
    BY <1>8 DEF DrainStep, FindDuplicate, MergeSources, InsertBatch, Insert, SettleBatch,
                IngestTypeOK, DrainerOK
  <2>2. \A e \in Drainers \ {d} : drainer'[e] = drainer[e]
    BY <1>1, <2>1 DEF Becomes
  <2>3. \A e \in Drainers \ {d} :
            /\ LoneHand(drainer[e], b, l)'
            /\ drainer[e].pc # "idle" /\ Batch(e) = b
                   => (drainer[e].pc # "idle" /\ Batch(e) = b)'
    BY <1>3, <2>2 DEF LoneKept, Batch
  <2>4. CASE UNCHANGED queue /\ drainer'[d].pc # "idle" /\ drainer'[d].item = drainer[d].item
    <3>1. LoneHand(drainer[d], b, l)'
      <4>1. CASE drainer[d].item.batch = b
        BY <1>8, <4>1, LoneHandStep DEF LoneKept
      <4>2. CASE drainer[d].item.batch # b
        BY <2>4, <4>2 DEF LoneHand
      <4> QED
        BY <4>1, <4>2
    <3>2. Batch(d)' = Batch(d)
      BY <2>4 DEF Batch
    <3>3. \A e \in Drainers : LoneHand(drainer[e], b, l)'
      BY <2>3, <3>1
    <3>4. \A i \in 1..Len(queue') : queue'[i].batch = b => FirstTry(queue[i], l)'
      BY <1>2, <2>4 DEF LoneKept, FirstTry
    <3>5. InQueue(b) => InQueue(b)'
      BY <2>4 DEF InQueue
    <3>6. pushes'[b] > 0 => \/ Known(b, l)' \/ InQueue(b)'
                            \/ \E e \in Drainers : (drainer[e].pc # "idle" /\ Batch(e) = b)'
      BY <1>2, <2>1, <2>3, <2>4, <3>2, <3>5 DEF LoneKept
    <3> QED
      BY <3>3, <3>4, <3>6 DEF LoneKept
  <2>5. CASE SettleBatch(d) /\ drainer'[d] = IdleDrainer
    <3> DEFINE x == [drainer[d].item EXCEPT !.try = @ + 1]
    <3>1. x \in Items /\ x.batch = drainer[d].item.batch /\ drainer[d].item.try \in Nat
      <4>1. drainer[d].item.try + 1 \in Nat /\ drainer[d].item.try \in Nat
        BY <2>1 DEF Items
      <4> QED
        BY <2>1, <4>1 DEF Items
    <3>2. queue' = IF NothingStored(d) /\ drainer[d].item.try < MaxRetryAttempts
                   THEN Append(queue, x) ELSE queue
      BY <2>5 DEF SettleBatch
    <3> HIDE DEF x
    <3>3. Len(queue) \in Nat
      BY <1>1
    <3>4. \A i \in 1..Len(queue') : \/ i \in 1..Len(queue) /\ queue'[i] = queue[i]
                                    \/ queue'[i] = x
      BY <1>4, <3>1, <3>2, <3>3
    <3>5. InQueue(b) => InQueue(b)'
      BY <1>4, <3>1, <3>2, <3>3 DEF InQueue
    <3>6. \A e \in Drainers : LoneHand(drainer[e], b, l)'
      BY <2>3, <2>5 DEF LoneHand, IdleDrainer
    <3>7. CASE drainer[d].item.batch # b
      <4>1. \A i \in 1..Len(queue') : queue'[i].batch = b => FirstTry(queue[i], l)'
        BY <1>2, <3>1, <3>4, <3>7 DEF LoneKept, FirstTry
      <4>2. pushes'[b] > 0 => \/ Known(b, l)' \/ InQueue(b)'
                              \/ \E e \in Drainers : (drainer[e].pc # "idle" /\ Batch(e) = b)'
        BY <1>2, <2>1, <2>3, <3>5, <3>7 DEF LoneKept, Batch
      <4> QED
        BY <3>6, <4>1, <4>2 DEF LoneKept
    <3>8. CASE drainer[d].item.batch = b
      <4>1. \/ Known(b, l)
            \/ SameBusiness(l) # {} /\ NothingStored(d) /\ drainer[d].item.try = 0
        <5>1. drainer'[d].pc = "idle"
          BY <2>5 DEF IdleDrainer
        <5> QED
          BY <1>8, <3>8, <5>1, LoneHandStep DEF LoneKept
      <4>2. SameBusiness(l)' # {}
        BY <1>2, <4>1 DEF Known
      <4>3. \A i \in 1..Len(queue') : queue'[i].batch = b => FirstTry(queue[i], l)'
        BY <4>2 DEF FirstTry
      <4>4. Known(b, l)' \/ InQueue(b)'
        <5>1. CASE Known(b, l)
          BY <1>2, <5>1
        <5>2. CASE NothingStored(d) /\ drainer[d].item.try = 0
          <6>1. queue' = Append(queue, x)
            BY <3>2, <5>2, IngestBoundsAssumption
          <6> QED
            BY <1>4, <3>1, <3>3, <3>8, <6>1 DEF InQueue
        <5> QED
          BY <4>1, <5>1, <5>2
      <4> QED
        BY <3>6, <4>3, <4>4 DEF LoneKept
    <3> QED
      BY <3>7, <3>8
  <2> QED
    BY <1>8, <2>4, <2>5, ItemKept
<1> QED
  BY <1>5, <1>6, <1>7, <1>8 DEF Next, vars

(* The list and the loops keep the batch of a lone lead, or its source is  *)
(* known.                                                                  *)
LEMMA LoneBatchesStay ==
    ASSUME MaxRetryAttempts # 0, IngestTypeOK, IngestTypeOK', [Next]_vars, LoneBatchesKept
    PROVE  LoneBatchesKept'
<1>1. faults \in Nat /\ exits \in Nat /\ faults' \in Nat /\ exits' \in Nat
  BY DEF IngestTypeOK
<1>2. ASSUME faults' + exits' = 0
      PROVE  faults + exits = 0 /\ ~ \E d \in Drainers : DrainFails(d)
  <2>1. ASSUME NEW d \in Drainers, DrainFails(d)
        PROVE  FALSE
    BY <1>1, <1>2, <2>1
       DEF DrainFails, FindFails, MergeFails, InsertBatchFails, InsertFails,
           RequeueFails, IngestStops, IngestFault
  <2>2. UNCHANGED <<faults, exits>>
    BY <2>1
       DEF Next, DrainStep, Push, DequeueBatch, FindDuplicate, MergeSources, InsertBatch,
           Insert, SettleBatch, NoFault, vars
  <2> QED
    BY <1>2, <2>1, <2>2
<1>3. ASSUME faults' + exits' = 0, NEW b \in Batches, NEW l \in Leads, LoneBatch(b, l)
      PROVE  LoneKept(b, l)'
  BY <1>2, <1>3, LoneKeptNext DEF LoneBatchesKept
<1>4. \A b \in Batches, l \in Leads : LoneBatch(b, l)' <=> LoneBatch(b, l)
  BY DEF LoneBatch
<1> QED
  BY <1>3, <1>4 DEF LoneBatchesKept

(* A batch of one lead keeps its source when nothing fails, provided a     *)
(* batch may be queued again at least once (maxRetryAttempts is 3): of two *)
(* instances that insert the same business at once, the loser's retry      *)
(* merges its source into the winner's row.                                *)
THEOREM LoneSourcesAreKept ==
    ASSUME MaxRetryAttempts # 0
    PROVE  Spec => []LoneSourcesKept
<1>1. Init => LoneBatchesKept
  BY DEF Init, LoneBatchesKept, LoneKept, LoneHand, IdleDrainer
<1>2. IngestTypeOK /\ IngestTypeOK' /\ [Next]_vars /\ LoneBatchesKept => LoneBatchesKept'
  BY LoneBatchesStay
<1>3. IngestTypeOK /\ LoneBatchesKept => LoneSourcesKept
  <2>1. ASSUME IngestTypeOK, NEW b \in Batches, NEW l \in Leads, LoneBatch(b, l),
               LoneKept(b, l), pushes[b] > 0, ~Underway(l)
        PROVE  Known(b, l)
    <3>1. Contains(LeadsOf[b], l)
      <4>1. 1 \in 1..Len(LeadsOf[b]) /\ LeadsOf[b][1] = l
        BY <2>1 DEF LoneBatch
      <4> QED
        BY <4>1 DEF Contains
    <3> QED
      BY <2>1, <3>1 DEF LoneKept, Underway, InQueue, At
  <2> QED
    BY <2>1 DEF LoneBatchesKept, LoneSourcesKept, LoneBatch, Known
<1> QED
  BY <1>1, <1>2, <1>3, IngestTypeCorrect, PTL DEF Spec

=============================================================================
