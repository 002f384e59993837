---------------------------- MODULE CrawlProofs -----------------------------
(***************************************************************************)
(* What SiteCrawl guarantees for every web, depth and number of pages: no  *)
(* page is requested twice, the page budget is spent on visited URLs, the  *)
(* order is breadth-first, nothing within the limits is left out, and the  *)
(* crawl implements SiteSearch.                                            *)
(***************************************************************************)
EXTENDS SiteCrawl, FiniteSetTheorems, TLAPS

(* The entry in hand is the last one requested.                            *)
InHand ==
    /\ fetched # <<>> => entry = fetched[Len(fetched)]
    /\ fetched = <<>> => entry.depth = 0
    /\ pc \in {"fetch", "links"} => fetched # <<>>
    /\ pc = "links" => entry.url \in DOMAIN pageOf

(* The counters agree with the visited URLs.                               *)
Counted ==
    /\ IsFiniteSet(visited) /\ visited \subseteq SitePages
    /\ domainCounts[BaseDomain] = Cardinality(visited)
    /\ Cardinality(visited) <= MaxPages
    /\ \A d \in Domains \ {BaseDomain} : domainCounts[d] = 0
    /\ Len(Course) = Cardinality(visited)
    /\ pagesCrawled + (IF pc = "fetch" THEN 1 ELSE 0) <= Len(fetched)

CrawlInv == TypeOK /\ FetchedOnce /\ BreadthFirst /\ InHand /\ Counted

-----------------------------------------------------------------------------
(* Requesting the head of the queue leaves the course as it is.            *)
LEMMA CourseNext ==
    ASSUME NEW E, NEW f \in Seq(E), NEW q \in Seq(E), q # <<>>
    PROVE  Append(f, Head(q)) \o Tail(q) = f \o q
<1>1. /\ Append(f, Head(q)) \o Tail(q) \in Seq(E) /\ f \o q \in Seq(E)
      /\ Len(Append(f, Head(q)) \o Tail(q)) = Len(f \o q)
  OBVIOUS
<1>2. ASSUME NEW i \in 1..Len(f \o q)
      PROVE  (Append(f, Head(q)) \o Tail(q))[i] = (f \o q)[i]
  OBVIOUS
<1>. QED
  BY <1>1, <1>2

(* Queueing an entry appends it to the course.                             *)
LEMMA CourseAppend ==
    ASSUME NEW E, NEW f \in Seq(E), NEW q \in Seq(E), NEW e \in E
    PROVE  f \o Append(q, e) = Append(f \o q, e)
<1>1. /\ f \o Append(q, e) \in Seq(E) /\ Append(f \o q, e) \in Seq(E)
      /\ Len(f \o Append(q, e)) = Len(Append(f \o q, e))
  OBVIOUS
<1>2. ASSUME NEW i \in 1..Len(f \o Append(q, e))
      PROVE  (f \o Append(q, e))[i] = Append(f \o q, e)[i]
  OBVIOUS
<1>. QED
  BY <1>1, <1>2

(* The normal form of a link is a link of the same host.                   *)
LEMMA NormalizeLink ==
    ASSUME NEW l \in Links
    PROVE  /\ Normalize(l) \in Links
           /\ ExtractDomain(Normalize(l)) = ExtractDomain(l)
           /\ ExtractDomain(l) \in Domains
  BY LinksAssumption DEF Links, Normalize, ExtractDomain, Domains

LEMMA StartIsOfTheSite == Normalize(Start) \in SitePages /\ BaseDomain \in Domains
  BY LinksAssumption, NormalizeLink DEF SitePages, BaseDomain

-----------------------------------------------------------------------------
LEMMA InitCrawlInv == Init => CrawlInv
<1>. SUFFICES ASSUME Init
              PROVE  CrawlInv
  OBVIOUS
<1>. USE LinksAssumption, LimitsAssumption, StartIsOfTheSite, NormalizeLink
<1>. DEFINE e == [url |-> Normalize(Start), depth |-> 0]
<1>1. e \in Entries
  BY DEF Entries
<1>2. TypeOK
  <2>1. queue \in Seq(Entries) /\ fetched \in Seq(Entries) /\ entry \in Entries
    BY <1>1 DEF Init
  <2>2. domainCounts \in [Domains -> Nat] /\ pending \in Seq(Links)
    BY DEF Init
  <2>3. DOMAIN pageOf = {} /\ pageOf \in [DOMAIN pageOf -> Seq(Links)]
    BY DEF Init
  <2>. QED
    BY <2>1, <2>2, <2>3 DEF TypeOK, Init
<1>3. Course = <<e>>
  BY <1>1 DEF Course, Init
<1>4. FetchedOnce
  BY <1>3 DEF FetchedOnce, Init
<1>5. BreadthFirst
  BY <1>3 DEF BreadthFirst, Init
<1>6. InHand
  BY DEF InHand, Init
<1>7. Counted
  <2>1. IsFiniteSet(visited) /\ Cardinality(visited) = 1 /\ Len(Course) = 1
    BY <1>3, FS_Singleton DEF Init
  <2>2. /\ domainCounts[BaseDomain] = 1
        /\ \A d \in Domains \ {BaseDomain} : domainCounts[d] = 0
    BY DEF Init
  <2>3. visited \subseteq SitePages /\ pagesCrawled = 0 /\ pc = "loop"
        /\ Len(fetched) = 0
    BY DEF Init
  <2>. QED
    BY <2>1, <2>2, <2>3 DEF Counted
<1>. QED
  BY <1>2, <1>4, <1>5, <1>6, <1>7 DEF CrawlInv

(* Steps that leave frontier, requests and the entry in hand alone.        *)
LEMMA SameCourse ==
    ASSUME FetchedOnce, BreadthFirst,
           UNCHANGED <<queue, visited, fetched, entry>>
    PROVE  FetchedOnce' /\ BreadthFirst' /\ Course' = Course
  BY DEF FetchedOnce, BreadthFirst, Course

LEMMA NextPageKeeps ==
    ASSUME CrawlInv, NextPage
    PROVE  CrawlInv'
<1>. USE DEF CrawlInv
<1>1. /\ queue \in Seq(Entries) /\ queue # <<>> /\ fetched \in Seq(Entries)
      /\ Head(queue) \in Entries /\ Tail(queue) \in Seq(Entries)
  BY DEF TypeOK, NextPage, Continues
<1>2. TypeOK'
  BY <1>1 DEF TypeOK, NextPage
<1>3. Course' = Course
  BY <1>1, CourseNext DEF NextPage, Course
<1>4. FetchedOnce'
  BY <1>3 DEF FetchedOnce, NextPage
<1>5. /\ entry' = Head(queue) /\ queue' = Tail(queue)
      /\ Course[Len(fetched) + 1] = Head(queue)
      /\ \A i \in 1..Len(queue) : Course[Len(fetched) + i] = queue[i]
      /\ Len(Course) = Len(fetched) + Len(queue)
  BY <1>1 DEF NextPage, Course
<1>6. entry.depth <= Head(queue).depth
  <2>1. CASE fetched = <<>>
    BY <2>1, <1>1 DEF InHand, Entries
  <2>2. CASE fetched # <<>>
    <3>1. /\ Len(fetched) \in 1..Len(Course) /\ Len(fetched) + 1 \in 1..Len(Course)
          /\ Course[Len(fetched)] = fetched[Len(fetched)]
      BY <1>1, <1>5, <2>2 DEF Course
    <3>. QED
      BY <3>1, <2>2, <1>5 DEF BreadthFirst, InHand
  <2>. QED
    BY <2>1, <2>2
<1>7. BreadthFirst'
  <2>1. \A i \in 1..Len(queue') : queue'[i].depth <= entry'.depth + 1
    <3>1. ASSUME NEW i \in 1..Len(Tail(queue))
          PROVE  Tail(queue)[i].depth <= Head(queue).depth + 1
      <4>1. /\ i + 1 \in 1..Len(queue) /\ Tail(queue)[i] = queue[i + 1]
            /\ queue[i + 1] \in Entries
        BY <1>1
      <4>2. queue[i + 1].depth <= entry.depth + 1
        BY <4>1 DEF BreadthFirst
      <4>3. /\ queue[i + 1].depth \in Nat /\ Head(queue).depth \in Nat
            /\ entry.depth \in Nat
        BY <1>1, <4>1 DEF Entries, TypeOK
      <4>4. queue[i + 1].depth <= Head(queue).depth + 1
        BY <4>2, <4>3, <1>6
      <4>. QED
        BY <4>1, <4>4
    <3>. QED
      BY <3>1, <1>5
  <2>. QED
    BY <1>3, <2>1 DEF BreadthFirst
<1>8. InHand'
  BY <1>1 DEF InHand, NextPage
<1>9. Counted'
  BY <1>1, <1>3 DEF Counted, NextPage, TypeOK
<1>. QED
  BY <1>2, <1>4, <1>7, <1>8, <1>9

LEMMA PageReadKeeps ==
    ASSUME CrawlInv, NEW links \in PageLinks, NEW some \in BOOLEAN,
           PageRead(links, some)
    PROVE  CrawlInv'
<1>. USE LinksAssumption DEF CrawlInv
<1>1. links \in Seq(Links) /\ entry.url \in Links
  BY DEF TypeOK, Entries
<1>2. TypeOK'
  BY <1>1 DEF TypeOK, PageRead
<1>3. FetchedOnce' /\ BreadthFirst' /\ Course' = Course
  BY SameCourse DEF PageRead
<1>4. InHand'
  BY DEF InHand, PageRead
<1>5. Counted'
  BY <1>3 DEF Counted, PageRead, TypeOK
<1>. QED
  BY <1>2, <1>3, <1>4, <1>5

LEMMA TurnEndsKeeps ==
    ASSUME CrawlInv, TurnEnds
    PROVE  CrawlInv'
<1>. USE DEF CrawlInv
<1>1. TypeOK'
  BY DEF TypeOK, TurnEnds, InHand
<1>2. FetchedOnce' /\ BreadthFirst' /\ Course' = Course
  BY SameCourse DEF TurnEnds
<1>3. InHand'
  BY DEF InHand, TurnEnds
<1>4. Counted'
  BY <1>2 DEF Counted, TurnEnds, TypeOK
<1>. QED
  BY <1>1, <1>2, <1>3, <1>4

(* A failed page, the end of the crawl and an abort change no counter.     *)
LEMMA OtherStepsKeep ==
    ASSUME CrawlInv, PageFails \/ Finish \/ Abort
    PROVE  CrawlInv'
<1>. USE DEF CrawlInv
<1>1. TypeOK'
  BY DEF TypeOK, PageFails, Finish, Abort
<1>2. FetchedOnce' /\ BreadthFirst' /\ Course' = Course
  BY SameCourse DEF PageFails, Finish, Abort
<1>3. InHand'
  BY DEF InHand, PageFails, Finish, Abort
<1>4. Counted'
  BY <1>2 DEF Counted, PageFails, Finish, Abort, TypeOK
<1>. QED
  BY <1>1, <1>2, <1>3, <1>4

(* A link that is added is a new URL of the site within the limits.        *)
LEMMA AddLinkKeeps ==
    ASSUME CrawlInv, AddLink
    PROVE  CrawlInv'
<1>. USE LinksAssumption, LimitsAssumption DEF CrawlInv
<1>. DEFINE l == Head(pending)
            e == [url |-> Normalize(l), depth |-> entry.depth + 1]
<1>1. /\ l \in Links /\ Tail(pending) \in Seq(Links) /\ entry \in Entries
      /\ Normalize(l) \in Links /\ e \in Entries
      /\ pending' = Tail(pending) /\ fetched # <<>>
  BY NormalizeLink DEF AddLink, TypeOK, InHand, Entries
<1>2. CASE UNCHANGED frontierVars
  <2>1. TypeOK'
    BY <1>1, <1>2 DEF TypeOK, AddLink, frontierVars
  <2>2. FetchedOnce' /\ BreadthFirst' /\ Course' = Course
    BY <1>2, SameCourse DEF AddLink, frontierVars
  <2>3. InHand' /\ Counted'
    BY <1>2, <2>2 DEF InHand, Counted, AddLink, frontierVars, TypeOK
  <2>. QED
    BY <2>1, <2>2, <2>3
<1>3. CASE ClassifyLink(l) = turn /\ Accepts(l, entry.depth + 1)
  <2>1. /\ visited' = visited \cup {Normalize(l)}
        /\ domainCounts' = [domainCounts EXCEPT ![ExtractDomain(l)] = @ + 1]
        /\ queue' = Append(queue, e) /\ fetched' = fetched
        /\ UNCHANGED <<entry, turn, pagesCrawled, contact, aborted, pc, pageOf>>
    BY <1>3 DEF AddLink, Add
  <2>2. /\ ExtractDomain(l) = BaseDomain /\ Normalize(l) \notin visited
        /\ entry.depth + 1 <= MaxDepth /\ domainCounts[BaseDomain] < MaxPages
    BY <1>3 DEF ClassifyLink, Accepts, TypeOK
  <2>3. TypeOK'
    BY <1>1, <2>1, NormalizeLink DEF TypeOK
  <2>4. /\ Course \in Seq(Entries) /\ Course' = Append(Course, e)
        /\ queue \in Seq(Entries) /\ fetched \in Seq(Entries)
    BY <1>1, <2>1, CourseAppend DEF Course, TypeOK
  <2>5. FetchedOnce'
    <3>1. \A i \in 1..Len(Course) : Course[i].url # e.url
      BY <2>2 DEF FetchedOnce
    <3>2. \A i, j \in 1..Len(Course') : Course'[i].url = Course'[j].url => i = j
      BY <2>4, <3>1 DEF FetchedOnce
    <3>3. visited' = {Course'[i].url : i \in 1..Len(Course')}
      BY <2>1, <2>4 DEF FetchedOnce
    <3>. QED
      BY <3>2, <3>3 DEF FetchedOnce
  <2>6. \A i \in 1..Len(Course) : Course[i].depth <= entry.depth + 1
    <3>. SUFFICES ASSUME NEW i \in 1..Len(Course)
                  PROVE  Course[i].depth <= entry.depth + 1
      OBVIOUS
    <3>1. CASE i <= Len(fetched)
      <4>1. /\ Len(fetched) \in 1..Len(Course) /\ entry = Course[Len(fetched)]
        BY <1>1, <2>4 DEF Course, InHand
      <4>2. Course[i].depth <= Course[Len(fetched)].depth
        BY <3>1, <4>1 DEF BreadthFirst
      <4>. QED
        <5>1. Course[i].depth <= entry.depth /\ Course[i] \in Entries
          BY <4>1, <4>2, <2>4
        <5>. QED
          BY <5>1, <1>1 DEF Entries
    <3>2. CASE ~(i <= Len(fetched))
      BY <3>2, <2>4 DEF Course, BreadthFirst
    <3>. QED
      BY <3>1, <3>2
  <2>7. BreadthFirst'
    <3>1. \A i, j \in 1..Len(Course') :
             i <= j => Course'[i].depth <= Course'[j].depth
      BY <2>4, <2>6, <1>1 DEF BreadthFirst, Entries
    <3>2. \A i \in 1..Len(queue') : queue'[i].depth <= entry'.depth + 1
      <4>. SUFFICES ASSUME NEW i \in 1..(Len(queue) + 1)
                    PROVE  Append(queue, e)[i].depth <= entry.depth + 1
        BY <2>1, <2>4, <1>1
      <4>1. CASE i \in 1..Len(queue)
        BY <4>1, <2>4, <1>1 DEF BreadthFirst
      <4>2. CASE i = Len(queue) + 1
        BY <4>2, <2>4, <1>1 DEF Entries
      <4>. QED
        BY <4>1, <4>2, <2>4
    <3>3. \A i \in 1..Len(Course') : Course'[i].depth <= MaxDepth
      BY <2>2, <2>4 DEF BreadthFirst
    <3>. QED
      BY <3>1, <3>2, <3>3 DEF BreadthFirst
  <2>8. InHand'
    BY <2>1 DEF InHand
  <2>9. Counted'
    <3>1. /\ IsFiniteSet(visited')
          /\ Cardinality(visited') = Cardinality(visited) + 1
      BY <2>1, <2>2, FS_AddElement DEF Counted
    <3>2. visited' \subseteq SitePages
      BY <1>1, <2>1, <2>2 DEF Counted, SitePages
    <3>3. /\ domainCounts'[BaseDomain] = Cardinality(visited')
          /\ \A d \in Domains \ {BaseDomain} : domainCounts'[d] = 0
          /\ Cardinality(visited') <= MaxPages
      BY <2>1, <2>2, <3>1, StartIsOfTheSite, FS_CardinalityType
      DEF Counted, TypeOK
    <3>4. Len(Course') = Cardinality(visited')
      BY <2>4, <3>1 DEF Counted
    <3>. QED
      BY <2>1, <3>1, <3>2, <3>3, <3>4 DEF Counted
  <2>. QED
    BY <2>3, <2>5, <2>7, <2>8, <2>9
<1>. QED
  BY <1>2, <1>3 DEF AddLink, Add

(* The strengthened invariant is inductive.                                *)
THEOREM CrawlInvariant == Spec => []CrawlInv
<1>1. Init => CrawlInv
  BY InitCrawlInv
<1>2. CrawlInv /\ [Next]_vars => CrawlInv'
  <2>. SUFFICES ASSUME CrawlInv, [Next]_vars
                PROVE  CrawlInv'
    OBVIOUS
  <2>1. CASE NextPage
    BY <2>1, NextPageKeeps
  <2>2. CASE \E links \in PageLinks, some \in BOOLEAN : PageRead(links, some)
    BY <2>2, PageReadKeeps
  <2>3. CASE AddLink
    BY <2>3, AddLinkKeeps
  <2>4. CASE TurnEnds
    BY <2>4, TurnEndsKeeps
  <2>5. CASE PageFails \/ Finish \/ Abort
    BY <2>5, OtherStepsKeep
  <2>6. CASE UNCHANGED vars
    <3>1. FetchedOnce' /\ BreadthFirst' /\ Course' = Course
      BY <2>6, SameCourse DEF vars, CrawlInv
    <3>2. TypeOK'
      BY <2>6 DEF vars, CrawlInv, TypeOK
    <3>3. InHand' /\ Counted'
      BY <2>6, <3>1 DEF vars, CrawlInv, InHand, Counted
    <3>. QED
      BY <3>1, <3>2, <3>3 DEF CrawlInv
  <2>. QED
    BY <2>1, <2>2, <2>3, <2>4, <2>5, <2>6 DEF Next, Step
<1>. QED
  BY <1>1, <1>2, PTL DEF Spec

-----------------------------------------------------------------------------
(* No page is requested twice and the course holds the visited URLs.       *)
THEOREM RequestsOnce == Spec => []FetchedOnce
  BY CrawlInvariant, PTL DEF CrawlInv

(* The crawl goes level by level and never below MaxDepth.                 *)
THEOREM GoesBreadthFirst == Spec => []BreadthFirst
  BY CrawlInvariant, PTL DEF CrawlInv

THEOREM CrawlTypes == Spec => []TypeOK
  BY CrawlInvariant, PTL DEF CrawlInv

(* MaxPages limits the visited URLs, failed pages included.                *)
THEOREM BudgetHolds == Spec => []BudgetIsVisited
<1>1. CrawlInv => BudgetIsVisited
  <2>. SUFFICES ASSUME CrawlInv
                PROVE  BudgetIsVisited
    OBVIOUS
  <2>1. ASSUME pagesCrawled = MaxPages
        PROVE  queue = <<>>
    <3>1. /\ fetched \in Seq(Entries) /\ queue \in Seq(Entries)
          /\ Len(fetched) + Len(queue) <= MaxPages /\ pagesCrawled <= Len(fetched)
      BY LimitsAssumption DEF CrawlInv, TypeOK, Counted, Course
    <3>2. Len(queue) = 0
      BY <2>1, <3>1, LimitsAssumption
    <3>. QED
      BY <3>1, <3>2
  <2>. QED
    BY <2>1 DEF CrawlInv, Counted, BudgetIsVisited
<1>. QED
  BY <1>1, CrawlInvariant, PTL

-----------------------------------------------------------------------------
(* A link of the page in hand has its place, or there is none.             *)
Settled(l) ==
    \/ Normalize(l) \in visited
    \/ domainCounts[BaseDomain] >= MaxPages
    \/ entry.depth + 1 > MaxDepth

(* The links of the page in hand whose turn has come: those of the turn    *)
(* among the first n, and the priority links once it is over.              *)
Passed(l, k, n) ==
    \/ ClassifyLink(l) = turn /\ k <= n
    \/ ClassifyLink(l) = "priority" /\ turn = "follow"

(* pending is what is left of the page's links, and the links already      *)
(* passed are settled.                                                     *)
TurnInv ==
    pc = "links" =>
        LET page == pageOf[entry.url]
            n    == Len(page) - Len(pending)
        IN  /\ Len(pending) <= Len(page)
            /\ \A k \in 1..Len(pending) : pending[k] = page[n + k]
            /\ \A k \in 1..Len(page) : Passed(page[k], k, n) => Settled(page[k])

LEMMA TurnInvKeeps ==
    ASSUME CrawlInv, CrawlInv', TurnInv, [Next]_vars
    PROVE  TurnInv'
<1>. USE DEF CrawlInv
<1>. SUFFICES ASSUME pc' = "links"
              PROVE  TurnInv'
  BY DEF TurnInv
<1>. DEFINE page == pageOf[entry.url]
            n == Len(page) - Len(pending)
<1>1. CASE \E links \in PageLinks, some \in BOOLEAN : PageRead(links, some)
  <2>1. PICK links \in PageLinks, some \in BOOLEAN : PageRead(links, some)
    BY <1>1
  <2>2. /\ links \in Seq(Links) /\ pageOf'[entry'.url] = links
        /\ pending' = links /\ turn' = "priority"
    BY <2>1, LinksAssumption DEF PageRead, TypeOK, Entries
  <2>. QED
    BY <2>2 DEF TurnInv, Passed
<1>2. CASE AddLink
  <2>1. /\ pc = "links" /\ page \in Seq(Links) /\ pending \in Seq(Links)
        /\ pending # <<>> /\ pending' = Tail(pending)
        /\ UNCHANGED <<entry, turn, pageOf>>
    BY <1>2 DEF AddLink, TypeOK, InHand
  <2>2. /\ Len(pending) <= Len(page) /\ Len(pending') = Len(pending) - 1
        /\ \A k \in 1..Len(pending) : pending[k] = page[n + k]
    BY <2>1 DEF TurnInv
  <2>3. Head(pending) = page[n + 1] /\ n + 1 \in 1..Len(page)
    BY <2>1, <2>2
  <2>4. \A k \in 1..Len(pending') : pending'[k] = page[n + 1 + k]
    BY <2>1, <2>2, SMTT(30)
  <2>5. /\ visited \subseteq visited'
        /\ domainCounts'[BaseDomain] >= domainCounts[BaseDomain]
    <3>1. CASE UNCHANGED frontierVars
      BY <3>1, StartIsOfTheSite DEF frontierVars, TypeOK
    <3>2. CASE ~UNCHANGED frontierVars
      <4>1. /\ visited' = visited \cup {Normalize(Head(pending))}
            /\ domainCounts' = [domainCounts EXCEPT
                                  ![ExtractDomain(Head(pending))] = @ + 1]
        BY <1>2, <3>2 DEF AddLink, Add
      <4>. QED
        BY <4>1, StartIsOfTheSite DEF TypeOK
    <3>. QED
      BY <3>1, <3>2
  <2>6. ASSUME NEW k \in 1..Len(page), Passed(page[k], k, n + 1)
        PROVE  Settled(page[k])'
    <3>1. CASE Passed(page[k], k, n)
      <4>1. Settled(page[k])
        BY <2>1, <2>6, <3>1 DEF TurnInv
      <4>. QED
        <5>1. /\ domainCounts[BaseDomain] \in Nat
              /\ domainCounts'[BaseDomain] \in Nat
          BY StartIsOfTheSite DEF TypeOK
        <5>. QED
          BY <2>1, <2>5, <4>1, <5>1, LimitsAssumption DEF Settled
    <3>2. CASE ClassifyLink(page[k]) = turn /\ k = n + 1
      <4>1. /\ page[k] = Head(pending) /\ ClassifyLink(Head(pending)) = turn
            /\ ExtractDomain(Head(pending)) = BaseDomain
        BY <2>1, <2>3, <3>2 DEF ClassifyLink, TypeOK
      <4>2. CASE Accepts(Head(pending), entry.depth + 1)
        BY <4>1, <4>2, <1>2 DEF AddLink, Add, Settled
      <4>3. CASE ~Accepts(Head(pending), entry.depth + 1)
        <5>1. UNCHANGED <<visited, domainCounts, entry, pageOf>>
          BY <4>1, <4>3, <1>2 DEF AddLink, Add, frontierVars
        <5>2. Settled(page[k])
          BY <4>1, <4>3, StartIsOfTheSite, LimitsAssumption
          DEF Accepts, Settled, TypeOK, Entries
        <5>. QED
          BY <5>1, <5>2 DEF Settled
      <4>. QED
        BY <4>2, <4>3
    <3>. QED
      <4>. DEFINE m == Len(pending)
                  len == Len(page)
      <4>0. m \in Nat /\ len \in Nat /\ k \in Nat
        BY <2>1, <2>6
      <4>1. k <= n + 1 => k <= n \/ k = n + 1
        <5>. HIDE DEF m, len
        <5>. QED
          BY <4>0
      <4>. QED
        BY <2>6, <3>1, <3>2, <4>1 DEF Passed
  <2>7. /\ pageOf'[entry'.url] = page /\ turn' = turn
        /\ Len(page) - Len(pending') = n + 1 /\ Len(pending') <= Len(page)
    BY <2>1, <2>2
  <2>8. PICK m, p : m = n + 1 /\ p = page
    OBVIOUS
  <2>9. ASSUME NEW k \in 1..Len(p), Passed(p[k], k, m)'
        PROVE  Settled(p[k])'
    <3>1. Passed(page[k], k, n + 1)
      BY <2>1, <2>8, <2>9 DEF Passed
    <3>. QED
      BY <2>6, <2>7, <2>8, <2>9, <3>1 DEF Settled
  <2>. QED
    BY <2>4, <2>7, <2>8, <2>9 DEF TurnInv
<1>3. CASE TurnEnds
  <2>1. /\ pc = "links" /\ pending = <<>> /\ turn = "priority"
        /\ turn' = "follow" /\ pending' = page /\ page \in Seq(Links)
        /\ UNCHANGED <<entry, pageOf, visited, domainCounts>>
    BY <1>3 DEF TurnEnds, TypeOK, InHand
  <2>2. \A k \in 1..Len(page) :
           ClassifyLink(page[k]) = "priority" => Settled(page[k])
    BY <2>1 DEF TurnInv, Passed
  <2>. QED
    BY <2>1, <2>2 DEF TurnInv, Settled, Passed
<1>4. CASE UNCHANGED vars
  BY <1>4 DEF vars, TurnInv, Settled, Passed
<1>. QED
  BY <1>1, <1>2, <1>3, <1>4
  DEF Next, Step, NextPage, PageFails, Finish, Abort

LEMMA TurnHolds == Spec => []TurnInv
<1>1. Init => TurnInv
  BY DEF Init, TurnInv
<1>2. CrawlInv /\ CrawlInv' /\ TurnInv /\ [Next]_vars => TurnInv'
  BY TurnInvKeeps
<1>. QED
  BY <1>1, <1>2, CrawlInvariant, PTL DEF Spec

(* An ordinary link takes a place only after the page's priority links.    *)
THEOREM PriorityFirst == Spec => PriorityLinksFirst
<1>1. CrawlInv /\ TurnInv /\ [Next]_vars =>
        [visited' # visited /\ ClassifyLink(Head(pending)) # "priority" =>
           \A k \in 1..Len(pageOf[entry.url]) :
              ClassifyLink(pageOf[entry.url][k]) = "priority" =>
                 Normalize(pageOf[entry.url][k]) \in visited]_vars
  <2>. SUFFICES ASSUME CrawlInv, TurnInv, Next, visited' # visited,
                       ClassifyLink(Head(pending)) # "priority",
                       NEW k \in 1..Len(pageOf[entry.url]),
                       ClassifyLink(pageOf[entry.url][k]) = "priority"
                PROVE  Normalize(pageOf[entry.url][k]) \in visited
    BY DEF vars
  <2>1. AddLink
    BY DEF Next, Step, NextPage, PageRead, PageFails, TurnEnds, Finish, Abort
  <2>2. /\ pc = "links" /\ ClassifyLink(Head(pending)) = turn
        /\ Accepts(Head(pending), entry.depth + 1)
    BY <2>1 DEF AddLink, Add, frontierVars
  <2>3. turn = "follow" /\ ExtractDomain(Head(pending)) = BaseDomain
    BY <2>2 DEF CrawlInv, TypeOK, ClassifyLink
  <2>4. Settled(pageOf[entry.url][k])
    BY <2>2, <2>3 DEF TurnInv, Passed
  <2>. QED
    BY <2>2, <2>3, <2>4, StartIsOfTheSite, LimitsAssumption
    DEF Settled, Accepts, CrawlInv, TypeOK, Entries
<1>. QED
  BY <1>1, CrawlInvariant, TurnHolds, PTL DEF Spec, PriorityLinksFirst

-----------------------------------------------------------------------------
(* While the queue is not empty its head has not been requested, and the   *)
(* requests have not used up the budget.                                   *)
Requested == {fetched[i].url : i \in 1..Len(fetched)}

LEMMA HeadIsNew ==
    ASSUME CrawlInv, queue # <<>>
    PROVE  /\ Head(queue).url \in visited \ Requested
           /\ Len(fetched) < MaxPages
<1>1. fetched \in Seq(Entries) /\ queue \in Seq(Entries)
  BY DEF CrawlInv, TypeOK
<1>2. /\ Len(fetched) + 1 \in 1..Len(Course)
      /\ Course[Len(fetched) + 1] = Head(queue)
      /\ \A i \in 1..Len(fetched) : i \in 1..Len(Course) /\ Course[i] = fetched[i]
  BY <1>1 DEF Course
<1>3. Head(queue).url \in visited \ Requested
  BY <1>1, <1>2 DEF CrawlInv, FetchedOnce, Requested
<1>4. Len(fetched) + 1 <= Len(Course) /\ Len(Course) <= MaxPages
  BY <1>1, <1>2 DEF CrawlInv, Counted
<1>. QED
  BY <1>1, <1>3, <1>4, LimitsAssumption

(* The crawl implements the search it promises.                            *)
THEOREM ImplementsSearch == Spec => IsSearch
<1>1. Init => Search!SearchInit
  BY DEF Init, Search!SearchInit, Ended
<1>2. CrawlInv /\ CrawlInv' /\ [Next]_vars => [Search!SearchNext]_(Search!searchVars)
  <2>. SUFFICES ASSUME CrawlInv, CrawlInv', [Next]_vars
                PROVE  [Search!SearchNext]_(Search!searchVars)
    OBVIOUS
  <2>. USE DEF Search!searchVars, Ended
  <2>1. CASE NextPage
    <3>1. /\ queue # <<>> /\ fetched \in Seq(Entries) /\ Head(queue) \in Entries
          /\ fetched' = Append(fetched, Head(queue))
          /\ pc = "loop" /\ pc' = "fetch" /\ UNCHANGED <<visited, contact>>
      BY <2>1 DEF NextPage, Continues, CrawlInv, TypeOK
    <3>2. Requested' = Requested \cup {Head(queue).url}
      BY <3>1 DEF Requested
    <3>3. PICK u \in SitePages : u = Head(queue).url
      BY <3>1, HeadIsNew DEF CrawlInv, Counted
    <3>4. Search!Request(u)
      BY <3>1, <3>2, <3>3, HeadIsNew DEF Search!Request, Requested
    <3>. QED
      BY <3>4 DEF Search!SearchNext
  <2>2. CASE \E links \in PageLinks, some \in BOOLEAN : PageRead(links, some)
    <3>1. /\ fetched \in Seq(Entries) /\ fetched # <<>> /\ contact' \in {contact, TRUE}
          /\ pc = "fetch" /\ pc' = "links" /\ UNCHANGED <<visited, fetched>>
      BY <2>2 DEF PageRead, CrawlInv, TypeOK, InHand
    <3>2. Requested # {}
      <4>1. 1 \in 1..Len(fetched)
        BY <3>1
      <4>. QED
        BY <4>1 DEF Requested
    <3>. QED
      BY <3>1, <3>2 DEF Search!SearchNext, Search!Read, Requested
  <2>3. CASE AddLink
    <3>1. /\ fetched \in Seq(Entries) /\ fetched # <<>>
          /\ pc = "links" /\ UNCHANGED <<pc, fetched, contact>>
          /\ visited \subseteq visited' /\ visited' \subseteq SitePages
      BY <2>3 DEF AddLink, Add, frontierVars, CrawlInv, TypeOK, InHand, Counted
    <3>2. Requested # {}
      <4>1. 1 \in 1..Len(fetched)
        BY <3>1
      <4>. QED
        BY <4>1 DEF Requested
    <3>. QED
      BY <3>1, <3>2 DEF Search!SearchNext, Search!Read, Requested
  <2>4. CASE Finish
    BY <2>4 DEF Finish, Search!SearchNext, Search!Conclude
  <2>5. CASE TurnEnds \/ PageFails \/ Abort
    BY <2>5 DEF TurnEnds, PageFails, Abort
  <2>6. CASE UNCHANGED vars
    BY <2>6 DEF vars
  <2>. QED
    BY <2>1, <2>2, <2>3, <2>4, <2>5, <2>6 DEF Next, Step
<1>. QED
  BY <1>1, <1>2, CrawlInvariant, PTL DEF Spec, IsSearch, Search!SearchSpec

-----------------------------------------------------------------------------
(***************************************************************************)
(* A crawl that ends by itself has followed every link it could.           *)
(*                                                                         *)
(* A page is done with when each of its followable links is visited, or    *)
(* the page budget is.  Every page read is, but for the one in hand while  *)
(* its links are passed (TurnInv); a URL that failed has no page.          *)
(***************************************************************************)
BudgetSpent == domainCounts[BaseDomain] >= MaxPages

(* The followable links of a page.                                         *)
Followed(page) ==
    \A k \in 1..Len(page) :
       ClassifyLink(page[k]) # "skip" => Normalize(page[k]) \in visited \/ BudgetSpent

(* The entry whose page is in hand is the last one.                        *)
DoneWith(i) == pc # "links" \/ i < Len(fetched)

PagesFollowed ==
    /\ DOMAIN pageOf \subseteq Requested
    /\ pc = "fetch" => entry.url \notin DOMAIN pageOf
    /\ \A i \in 1..Len(fetched) :
          fetched[i].url \in DOMAIN pageOf /\ fetched[i].depth < MaxDepth /\ DoneWith(i)
             => Followed(pageOf[fetched[i].url])
    /\ Ended /\ ~aborted => queue = <<>> \/ BudgetSpent

(* Visited URLs stay visited and a spent budget stays spent.               *)
LEMMA FollowedStays ==
    ASSUME CrawlInv, CrawlInv', Next, NEW page, Followed(page)
    PROVE  Followed(page)'
<1>1. /\ visited \subseteq visited'
      /\ domainCounts'[BaseDomain] >= domainCounts[BaseDomain]
  <2>1. CASE UNCHANGED <<visited, domainCounts>>
    BY <2>1, StartIsOfTheSite DEF CrawlInv, TypeOK
  <2>2. CASE AddLink /\ ~UNCHANGED frontierVars
    <3>1. /\ visited' = visited \cup {Normalize(Head(pending))}
          /\ domainCounts' = [domainCounts EXCEPT
                                ![ExtractDomain(Head(pending))] = @ + 1]
      BY <2>2 DEF AddLink, Add
    <3>. QED
      BY <3>1, StartIsOfTheSite DEF CrawlInv, TypeOK
  <2>. QED
    BY <2>1, <2>2
    DEF Next, Step, NextPage, PageRead, PageFails, AddLink, TurnEnds, Finish, Abort,
        frontierVars
<1>2. BudgetSpent => BudgetSpent'
  <2>1. domainCounts[BaseDomain] \in Nat /\ domainCounts'[BaseDomain] \in Nat
    BY StartIsOfTheSite DEF CrawlInv, TypeOK
  <2>. QED
    BY <1>1, <2>1, LimitsAssumption DEF BudgetSpent
<1>. QED
  BY <1>1, <1>2 DEF Followed

LEMMA PagesFollowedKeeps ==
    ASSUME CrawlInv, CrawlInv', TurnInv, PagesFollowed, Next
    PROVE  PagesFollowed'
<1>. USE DEF CrawlInv
<1>1. /\ fetched \in Seq(Entries) /\ fetched' \in Seq(Entries) /\ queue \in Seq(Entries)
      /\ Len(fetched) \in Nat
  BY DEF TypeOK
<1>2. ASSUME UNCHANGED <<fetched, pageOf>>,
             \A i \in 1..Len(fetched) : DoneWith(i)' => DoneWith(i)
      PROVE  \A i \in 1..Len(fetched') :
                fetched'[i].url \in DOMAIN pageOf' /\ fetched'[i].depth < MaxDepth
                   /\ DoneWith(i)' => Followed(pageOf[fetched[i].url])'
  BY <1>2, FollowedStays DEF PagesFollowed
<1>3. CASE NextPage
  <2>1. /\ queue # <<>> /\ fetched' = Append(fetched, Head(queue))
        /\ entry' = Head(queue) /\ pc = "loop" /\ pc' = "fetch"
        /\ Head(queue).url \notin Requested /\ UNCHANGED pageOf
    BY <1>3, HeadIsNew DEF NextPage, Continues
  <2>2. Requested \subseteq Requested'
    BY <1>1, <2>1 DEF Requested
  <2>3. entry'.url \notin DOMAIN pageOf'
    BY <2>1 DEF PagesFollowed
  <2>4. ASSUME NEW i \in 1..Len(fetched'), fetched'[i].url \in DOMAIN pageOf',
               fetched'[i].depth < MaxDepth
        PROVE  Followed(pageOf[fetched[i].url])'
    <3>1. i # Len(fetched) + 1
      BY <1>1, <2>1, <2>3, <2>4
    <3>2. i \in 1..Len(fetched) /\ fetched'[i] = fetched[i]
      BY <1>1, <2>1, <3>1
    <3>. QED
      BY <2>1, <2>4, <3>2, FollowedStays DEF PagesFollowed, DoneWith
  <2>. QED
    BY <2>1, <2>2, <2>3, <2>4 DEF PagesFollowed, Ended
<1>4. CASE \E links \in PageLinks, some \in BOOLEAN : PageRead(links, some)
  <2>1. PICK links \in PageLinks, some \in BOOLEAN : PageRead(links, some)
    BY <1>4
  <2>2. /\ pc = "fetch" /\ pc' = "links" /\ UNCHANGED <<fetched, entry>>
        /\ DOMAIN pageOf' = DOMAIN pageOf \cup {entry.url}
        /\ \A u \in DOMAIN pageOf : u # entry.url => pageOf'[u] = pageOf[u]
    BY <2>1 DEF PageRead
  <2>3. Len(fetched) \in 1..Len(fetched) /\ fetched[Len(fetched)] = entry
    BY <1>1, <2>2 DEF InHand
  <2>4. DOMAIN pageOf' \subseteq Requested'
    BY <2>2, <2>3 DEF PagesFollowed, Requested
  <2>5. ASSUME NEW i \in 1..Len(fetched), fetched[i].url \in DOMAIN pageOf',
               fetched[i].depth < MaxDepth, i < Len(fetched)
        PROVE  Followed(pageOf[fetched[i].url])'
    <3>1. /\ i \in 1..Len(Course) /\ Len(fetched) \in 1..Len(Course)
          /\ Course[i] = fetched[i] /\ Course[Len(fetched)] = entry
      BY <1>1, <2>3 DEF Course
    <3>2. fetched[i].url # entry.url
      BY <2>5, <3>1 DEF FetchedOnce
    <3>3. /\ fetched[i].url \in DOMAIN pageOf
          /\ pageOf'[fetched[i].url] = pageOf[fetched[i].url]
      BY <2>2, <2>5, <3>2
    <3>4. Followed(pageOf[fetched[i].url])
      BY <2>2, <2>5, <3>3 DEF PagesFollowed, DoneWith
    <3>5. PICK page : page = pageOf[fetched[i].url]
      OBVIOUS
    <3>6. Followed(page)'
      BY <3>4, <3>5, FollowedStays
    <3>. QED
      BY <2>2, <3>3, <3>5, <3>6
  <2>. QED
    BY <2>2, <2>4, <2>5 DEF PagesFollowed, DoneWith, Ended
<1>5. CASE PageFails
  <2>1. /\ pc = "fetch" /\ pc' = "loop"
        /\ UNCHANGED <<fetched, pageOf, entry, queue, domainCounts, aborted>>
    BY <1>5 DEF PageFails
  <2>. QED
    BY <1>2, <2>1 DEF PagesFollowed, DoneWith, Requested, Ended
<1>6. CASE AddLink
  <2>1. pc = "links" /\ pc' = "links" /\ UNCHANGED <<fetched, pageOf, entry>>
    BY <1>6 DEF AddLink
  <2>. QED
    BY <1>2, <2>1 DEF PagesFollowed, DoneWith, Requested, Ended
<1>7. CASE TurnEnds
  <2>1. /\ pc = "links" /\ pending = <<>> /\ entry.url \in DOMAIN pageOf
        /\ UNCHANGED <<fetched, pageOf, entry, visited, domainCounts>>
        /\ Len(fetched) \in 1..Len(fetched) /\ fetched[Len(fetched)] = entry
    BY <1>1, <1>7 DEF TurnEnds, InHand
  <2>2. CASE turn = "priority"
    <3>1. pc' = "links"
      BY <1>7, <2>2 DEF TurnEnds
    <3>. QED
      BY <1>2, <2>1, <3>1 DEF PagesFollowed, DoneWith, Requested, Ended
  <2>3. CASE turn # "priority"
    <3>1. pc' = "loop" /\ turn = "follow"
      BY <1>7, <2>3 DEF TurnEnds, TypeOK
    <3>. DEFINE page == pageOf[entry.url]
    <3>2. ASSUME entry.depth < MaxDepth
          PROVE  Followed(page)
      <4>1. page \in Seq(Links)
        BY <2>1 DEF TypeOK
      <4>2. \A k \in 1..Len(page) : Passed(page[k], k, Len(page)) => Settled(page[k])
        BY <2>1, <4>1 DEF TurnInv
      <4>3. \A l \in Links : ClassifyLink(l) \in {"skip", "priority", "follow"}
        BY LinksAssumption DEF ClassifyLink, Links
      <4>4. \A l \in Links : Settled(l) => Normalize(l) \in visited \/ BudgetSpent
        BY <3>2, LimitsAssumption DEF Settled, BudgetSpent, TypeOK, Entries
      <4>5. ASSUME NEW k \in 1..Len(page), ClassifyLink(page[k]) # "skip"
            PROVE  Normalize(page[k]) \in visited \/ BudgetSpent
        <5>1. page[k] \in Links /\ k <= Len(page)
          BY <4>1
        <5>2. Passed(page[k], k, Len(page))
          BY <3>1, <4>3, <4>5, <5>1 DEF Passed
        <5>. QED
          BY <4>2, <4>4, <5>1, <5>2
      <4>. QED
        BY <4>5 DEF Followed
    <3>3. ASSUME NEW i \in 1..Len(fetched), fetched[i].url \in DOMAIN pageOf,
                 fetched[i].depth < MaxDepth
          PROVE  Followed(pageOf[fetched[i].url])'
      <4>1. Followed(pageOf[fetched[i].url])
        BY <1>1, <2>1, <3>2, <3>3 DEF PagesFollowed, DoneWith
      <4>. QED
        BY <2>1, <4>1 DEF Followed, BudgetSpent
    <3>. QED
      BY <2>1, <3>1, <3>3 DEF PagesFollowed, Requested, Ended
  <2>. QED
    BY <2>2, <2>3
<1>8. CASE Finish
  <2>1. /\ pc = "loop" /\ pc' \in {"lead", "none"} /\ ~Continues
        /\ UNCHANGED <<fetched, pageOf, entry, queue, domainCounts, aborted>>
    BY <1>8 DEF Finish
  <2>2. aborted \/ queue = <<>> \/ BudgetSpent
    <3>1. ASSUME pagesCrawled >= MaxPages
          PROVE  BudgetSpent
      <4>1. Len(fetched) <= Len(Course)
        BY <1>1 DEF Course
      <4>2. pagesCrawled <= Len(fetched) /\ pagesCrawled \in Nat
        BY <1>1, <2>1 DEF Counted, TypeOK
      <4>3. domainCounts[BaseDomain] = Len(Course) /\ Len(Course) \in Nat
        BY <1>1 DEF Counted, Course
      <4>. QED
        BY <1>1, <3>1, <4>1, <4>2, <4>3, LimitsAssumption DEF BudgetSpent
    <3>. QED
      BY <2>1, <3>1, LimitsAssumption DEF Continues, TypeOK
  <2>. QED
    BY <1>2, <2>1, <2>2 DEF PagesFollowed, DoneWith, Requested, Ended, BudgetSpent
<1>9. CASE Abort
  <2>1. /\ pc \in {"loop", "fetch"} /\ aborted'
        /\ UNCHANGED <<pc, fetched, pageOf, entry>>
    BY <1>9 DEF Abort
  <2>. QED
    BY <1>2, <2>1 DEF PagesFollowed, DoneWith, Requested
<1>. QED
  BY <1>3, <1>4, <1>5, <1>6, <1>7, <1>8, <1>9 DEF Next, Step

(* A crawl that ends by itself below its page budget leaves nothing to     *)
(* crawl: whatever failed, each followable link of each page it read above *)
(* the depth limit was queued, and each URL queued was requested.          *)
THEOREM CrawlIsComplete == Spec => []CompleteWithinLimits
<1>1. Init => PagesFollowed
  BY DEF Init, PagesFollowed, Ended
<1>2. CrawlInv /\ CrawlInv' /\ TurnInv /\ PagesFollowed /\ [Next]_vars => PagesFollowed'
  <2>1. ASSUME CrawlInv, PagesFollowed, UNCHANGED vars
        PROVE  PagesFollowed'
    BY <2>1 DEF vars, PagesFollowed, Requested, DoneWith, Followed, BudgetSpent, Ended
  <2>. QED
    BY <2>1, PagesFollowedKeeps
<1>3. CrawlInv /\ PagesFollowed => CompleteWithinLimits
  <2>. SUFFICES ASSUME CrawlInv, PagesFollowed, Ended, ~aborted,
                       Cardinality(visited) < MaxPages
                PROVE  CompleteWithinLimits
    BY DEF CompleteWithinLimits
  <2>1. ~BudgetSpent
    BY LimitsAssumption, FS_CardinalityType DEF BudgetSpent, CrawlInv, Counted
  <2>2. \A i \in 1..Len(fetched) : DoneWith(i)
    BY DEF DoneWith, Ended
  <2>. QED
    BY <2>1, <2>2 DEF CompleteWithinLimits, PagesFollowed, Followed
<1>. QED
  BY <1>1, <1>2, <1>3, CrawlInvariant, TurnHolds, PTL DEF Spec
=============================================================================
