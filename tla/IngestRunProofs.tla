-------------------------- MODULE IngestRunProofs --------------------------
(***************************************************************************)
(* Proofs about IngestRun: types, the bound on concurrent fetches, and     *)
(* that no loss goes unrecorded when both ways to fetch list everything.   *)
(***************************************************************************)
EXTENDS IngestRun, FiniteSetTheorems, TLAPS

\* A step of one fetch task leaves everything typed if it leaves that task so.
LEMMA TaskFrame ==
    ASSUME TypeOK, NEW t \in Types, NEW r \in Task, fetch' = [fetch EXCEPT ![t] = r],
           r.pc # "waiting",
           r.pc = "listing" => r.page =< Len(ListedPages[t]) + 1,
           r.pc = "native" => r.page =< Len(NativePages[t]) + 1,
           phase' = phase, graph' \subseteq Resources \cup Joins, next' = next, related' = related,
           errors' \subseteq ErrorNames, outcome' = outcome
    PROVE  TypeOK'
<1>1. fetch' \in [Types -> Task]
  BY DEF TypeOK
<1>2. fetch'[t] = r /\ \A u \in Types \ {t} : fetch'[u] = fetch[u]
  BY DEF TypeOK
<1> QED BY <1>1, <1>2 DEF TypeOK

\* The state of a run has its types.
THEOREM TypeCorrect == Spec => []TypeOK
<1>1. Init => TypeOK
  <2> SUFFICES ASSUME Init PROVE TypeOK
    OBVIOUS
  <2>1. Waiting \in Task
    BY DEF Waiting, Task
  <2> QED BY <2>1 DEF Init, TypeOK, Waiting
<1>2. TypeOK /\ [Next]_vars => TypeOK'
  <2> SUFFICES ASSUME TypeOK, [Next]_vars PROVE TypeOK'
    OBVIOUS
  <2>1. CASE UNCHANGED vars
    BY <2>1 DEF vars, TypeOK
  <2>2. CASE RejectPayload \/ AcceptPayload \/ EndFetch \/ EndEnrich \/ EndRun
    BY <2>2 DEF RejectPayload, AcceptPayload, EndFetch, EndEnrich, EndRun, TypeOK
  <2>3. CASE Enrich \/ EnrichFails
    <3>1. /\ next \in DOMAIN Enrichers /\ Enrichers[next] \in Joins
          /\ Enriched[Enrichers[next]] \subseteq Resources
      BY <2>3, RunAssumption DEF Enrich, EnrichFails, TypeOK
    <3> QED BY <2>3, <3>1 DEF Enrich, EnrichFails, TypeOK, ErrorNames
  <2>4. CASE CannotRelate
    BY <2>4 DEF CannotRelate, TypeOK, ErrorNames
  <2>6. CASE ApplyRule \/ RuleFails
    <3> DEFINE RuleRecord == [name : Joins,
                              from_label : STRING, from_property : STRING, edge_type : STRING,
                              to_label : STRING, to_property : STRING]
    <3>0. Rules \in Seq(RuleRecord) /\ next \in 1..Len(Rules)
      BY <2>6, RunAssumption DEF ApplyRule, RuleFails, TypeOK
    <3>a. Rules[next] \in RuleRecord
      <4> HIDE DEF RuleRecord
      <4> QED BY <3>0
    <3>1. Rules[next].name \in Joins /\ Rules[next].edge_type \in STRING
      BY <3>a
    <3>2. RuleEdges(Rules[next]) \subseteq Resources \X STRING \X Resources
      BY <3>1 DEF RuleEdges
    <3>3. related' \subseteq Resources \X STRING \X Resources
      BY <2>6, <3>2 DEF ApplyRule, RuleFails, TypeOK
    <3> QED BY <2>6, <3>1, <3>3 DEF ApplyRule, RuleFails, TypeOK, ErrorNames
  <2>5. ASSUME NEW t \in Types, FetchStep(t) PROVE TypeOK'
    <3>1. /\ ListedPages[t] \in Seq(SUBSET Resources)
          /\ NativePages[t] \in Seq(SUBSET Resources)
      BY InventoryAssumption
    <3>2. \A page \in SUBSET Resources : Cardinality(page) \in Nat
      BY RunAssumption, FS_Subset, FS_CardinalityType
    <3>0. fetch[t] \in Task
      BY DEF TypeOK
    <3>3. CASE Acquire(t)
      <4> DEFINE r == [fetch[t] EXCEPT !.pc = "listing"]
      <4>1. r \in Task /\ r.pc = "listing" /\ r.page = fetch[t].page
        BY <3>0 DEF Task
      <4>2. fetch' = [fetch EXCEPT ![t] = r]
        BY <3>3 DEF Acquire
      <4>3. r.page = 1
        BY <3>3, <4>1 DEF Acquire, TypeOK, Waiting
      <4> QED BY <3>1, <3>3, <4>1, <4>2, <4>3, TaskFrame DEF Acquire, TypeOK
    <3>4. CASE ListPage(t)
      <4> DEFINE n == fetch[t].page
                 c == fetch[t].count + Cardinality(ListedPages[t][n])
                 r == [fetch[t] EXCEPT !.page = n + 1, !.count = c]
      <4>1. n \in DOMAIN ListedPages[t] /\ ListedPages[t][n] \subseteq Resources
        BY <3>1, <3>4 DEF ListPage, ListingOver
      <4>2. r \in Task /\ r.pc = "listing" /\ r.page = n + 1
        <5>1. c \in Nat /\ n + 1 \in Nat \ {0}
          BY <3>0, <3>2, <4>1 DEF Task
        <5> HIDE DEF c, n
        <5> QED BY <3>0, <3>4, <5>1 DEF Task, ListPage
      <4>3. fetch' = [fetch EXCEPT ![t] = r]
        BY <3>4 DEF ListPage, Counted
      <4>4. r.page =< Len(ListedPages[t]) + 1
        BY <3>1, <4>1, <4>2
      <4> QED BY <3>4, <4>1, <4>2, <4>3, <4>4, TaskFrame DEF ListPage, TypeOK
    <3>5. CASE ListingEnds(t) \/ ListingFails(t)
      <4>1. ASSUME NEW cause \in {"empty", "error"}, TurnNative(t, cause)
            PROVE  \E r \in Task : /\ fetch' = [fetch EXCEPT ![t] = r]
                                   /\ r.pc = "native" /\ r.page = 1
        <5> DEFINE r == [pc |-> "native", page |-> 1, count |-> 0, cause |-> cause]
        <5>1. r \in Task /\ r.pc = "native" /\ r.page = 1
          BY DEF Task
        <5> QED BY <4>1, <5>1 DEF TurnNative
      <4>2. CASE fetch' = [fetch EXCEPT ![t].pc = "ok"]
        <5> DEFINE r == [fetch[t] EXCEPT !.pc = "ok"]
        <5>1. r \in Task /\ r.pc = "ok"
          BY <3>0 DEF Task
        <5>2. fetch' = [fetch EXCEPT ![t] = r]
          BY <4>2
        <5> QED BY <3>5, <5>1, <5>2, TaskFrame DEF ListingEnds, ListingFails, TypeOK
      <4>3. CASE \E cause \in {"empty", "error"} : TurnNative(t, cause)
        <5>1. PICK r \in Task : /\ fetch' = [fetch EXCEPT ![t] = r]
                                /\ r.pc = "native" /\ r.page = 1
          BY <4>1, <4>3
        <5> QED BY <3>1, <3>5, <5>1, TaskFrame DEF ListingEnds, ListingFails, TypeOK
      <4> QED BY <3>5, <4>2, <4>3 DEF ListingEnds, ListingFails
    <3>6. CASE NativePage(t)
      <4> DEFINE n == fetch[t].page
                 c == fetch[t].count + Cardinality(NativePages[t][n])
                 r == [fetch[t] EXCEPT !.page = n + 1, !.count = c]
      <4>1. n \in DOMAIN NativePages[t] /\ NativePages[t][n] \subseteq Resources
        BY <3>0, <3>1, <3>6 DEF NativePage, Task
      <4>2. r \in Task /\ r.pc = "native" /\ r.page = n + 1
        <5>1. c \in Nat /\ n + 1 \in Nat \ {0}
          BY <3>0, <3>2, <4>1 DEF Task
        <5> HIDE DEF c, n
        <5> QED BY <3>0, <3>6, <5>1 DEF Task, NativePage
      <4>3. fetch' = [fetch EXCEPT ![t] = r]
        BY <3>6 DEF NativePage, Counted
      <4>4. r.page =< Len(NativePages[t]) + 1
        BY <3>1, <4>1, <4>2
      <4> QED BY <3>6, <4>1, <4>2, <4>3, <4>4, TaskFrame DEF NativePage, TypeOK
    <3>7. CASE NativeEnds(t) \/ NativeFails(t) \/ TaskPanics(t)
      <4>1. PICK pc \in {"ok", "failed"} : fetch' = [fetch EXCEPT ![t].pc = pc]
        BY <3>7 DEF NativeEnds, NativeFails, TaskPanics
      <4> DEFINE r == [fetch[t] EXCEPT !.pc = pc]
      <4>2. r \in Task /\ r.pc = pc
        BY <3>0 DEF Task
      <4>3. fetch' = [fetch EXCEPT ![t] = r]
        BY <4>1
      <4> HIDE DEF r
      <4>4. /\ phase' = phase /\ graph' = graph /\ next' = next /\ outcome' = outcome
            /\ related' = related
            /\ errors' \subseteq ErrorNames
        BY <3>7 DEF NativeEnds, NativeFails, TaskPanics, TypeOK, ErrorNames
      <4> QED BY <4>2, <4>3, <4>4, TaskFrame DEF TypeOK
    <3> QED BY <2>5, <3>3, <3>4, <3>5, <3>6, <3>7 DEF FetchStep
  <2> QED BY <2>1, <2>2, <2>3, <2>4, <2>5, <2>6 DEF Next
<1> QED BY <1>1, <1>2, PTL DEF Spec

-----------------------------------------------------------------------------
(* Fetch tasks in flight *)

\* Only Acquire puts a task in flight, and only one.
LEMMA FlightStep ==
    ASSUME TypeOK, [Next]_vars
    PROVE  \/ InFlight' \subseteq InFlight
           \/ \E t \in Types : Acquire(t) /\ InFlight' = InFlight \cup {t}
<1>1. CASE fetch' = fetch
  BY <1>1 DEF InFlight
<1>2. ASSUME NEW t \in Types, FetchStep(t)
      PROVE  \/ InFlight' \subseteq InFlight
             \/ Acquire(t) /\ InFlight' = InFlight \cup {t}
  <2>1. fetch[t] \in Task /\ fetch \in [Types -> Task]
    BY DEF TypeOK
  <2>2. CASE Acquire(t)
    <3>1. fetch'[t].pc = "listing" /\ \A u \in Types \ {t} : fetch'[u] = fetch[u]
      BY <2>1, <2>2 DEF Acquire, Task
    <3> QED BY <2>2, <3>1 DEF InFlight
  <2>3. CASE ~Acquire(t)
    <3>1. t \in InFlight /\ \A u \in Types \ {t} : fetch'[u] = fetch[u]
      BY <1>2, <2>1, <2>3 DEF FetchStep, ListPage, ListingEnds, ListingFails, NativePage, NativeEnds,
             NativeFails, TaskPanics, TurnNative, InFlight
    <3>2. ASSUME NEW u \in InFlight' PROVE u \in InFlight
      <4>1. CASE u = t
        BY <3>1, <4>1
      <4>2. CASE u # t
        BY <3>1, <4>2 DEF InFlight
      <4> QED BY <4>1, <4>2
    <3>3. InFlight' \subseteq InFlight
      BY <3>2
    <3> QED BY <3>3
  <2> QED BY <2>2, <2>3
<1>3. CASE UNCHANGED vars
  BY <1>1, <1>3 DEF vars
<1>4. ASSUME Next, ~ \E t \in Types : FetchStep(t) PROVE fetch' = fetch
  BY <1>4 DEF Next, RejectPayload, AcceptPayload, EndFetch, Enrich, EnrichFails, EndEnrich,
         CannotRelate, ApplyRule, RuleFails, EndRun
<1> QED BY <1>1, <1>2, <1>3, <1>4

\* No more fetches run at a time than the semaphore has permits.
THEOREM AlwaysWithinLimit == Spec => []WithinLimit
<1>1. Init => WithinLimit
  <2> SUFFICES ASSUME Init PROVE WithinLimit
    OBVIOUS
  <2>1. InFlight = {}
    BY DEF Init, InFlight, Waiting
  <2> QED BY <2>1, FS_EmptySet, RunAssumption DEF WithinLimit
<1>2. TypeOK /\ WithinLimit /\ [Next]_vars => WithinLimit'
  <2> SUFFICES ASSUME TypeOK, WithinLimit, [Next]_vars PROVE WithinLimit'
    OBVIOUS
  <2>1. IsFiniteSet(InFlight) /\ Cardinality(InFlight) \in Nat
    BY RunAssumption, FS_Subset, FS_CardinalityType DEF InFlight
  <2>2. CASE InFlight' \subseteq InFlight
    <3>1. Cardinality(InFlight') =< Cardinality(InFlight) /\ Cardinality(InFlight') \in Nat
      BY <2>1, <2>2, FS_Subset, FS_CardinalityType
    <3> QED BY <2>1, <3>1, RunAssumption DEF WithinLimit
  <2>3. ASSUME NEW t \in Types, Acquire(t), InFlight' = InFlight \cup {t}
        PROVE  WithinLimit'
    <3>1. Cardinality(InFlight) < Limit
      BY <2>3 DEF Acquire
    <3>2. \/ Cardinality(InFlight') = Cardinality(InFlight)
          \/ Cardinality(InFlight') = Cardinality(InFlight) + 1
      BY <2>1, <2>3, FS_AddElement
    <3> QED BY <2>1, <3>1, <3>2, RunAssumption DEF WithinLimit
  <2> QED BY <2>2, <2>3, FlightStep
<1> QED BY <1>1, <1>2, TypeCorrect, PTL DEF Spec

\* Outside the fetch phase no task is in flight.
FlightInv == phase # "fetch" => InFlight = {}

\* No task writes nodes any more once the first enricher or rule runs.
THEOREM NodesAlwaysBeforeEdges == Spec => []NodesBeforeEdges
<1>1. Init => FlightInv
  BY DEF Init, FlightInv, InFlight, Waiting
<1>2. TypeOK /\ FlightInv /\ [Next]_vars => FlightInv'
  <2> SUFFICES ASSUME TypeOK, FlightInv, [Next]_vars PROVE FlightInv'
    OBVIOUS
  <2>1. ASSUME NEW t \in Types, FetchStep(t) PROVE phase = "fetch" /\ phase' = phase
    BY <2>1 DEF FetchStep, Acquire, ListPage, ListingEnds, ListingFails, NativePage, NativeEnds,
           NativeFails, TaskPanics, FlightInv, InFlight
  <2>2. CASE \E t \in Types : FetchStep(t)
    <3>1. phase' = "fetch"
      BY <2>1, <2>2
    <3> QED BY <3>1 DEF FlightInv
  <2>3. CASE EndFetch
    BY <2>3 DEF EndFetch, FlightInv, InFlight, Ended
  <2>4. ASSUME ~ \E t \in Types : FetchStep(t), ~EndFetch PROVE FlightInv'
    <3>1. fetch' = fetch /\ (phase' = phase \/ phase' = "fetch" \/ phase # "fetch")
      BY <2>4 DEF Next, vars, RejectPayload, AcceptPayload, Enrich, EnrichFails, EndEnrich,
             CannotRelate, ApplyRule, RuleFails, EndRun
    <3> QED BY <3>1 DEF FlightInv, InFlight
  <2> QED BY <2>2, <2>3, <2>4
<1>3. FlightInv => NodesBeforeEdges
  BY DEF FlightInv, NodesBeforeEdges
<1> QED BY <1>1, <1>2, <1>3, TypeCorrect, PTL DEF Spec

-----------------------------------------------------------------------------
(* No loss goes unrecorded *)

\* Cloud Control and the native SDK list the same, neither of them an empty page that
\* would end the listing, and every type has a fallback.
FullListing ==
    /\ HasFallback = Types
    /\ \A t \in Types : /\ \A i \in DOMAIN ListedPages[t] : ListedPages[t][i] # {}
                        /\ Pages(ListedPages[t]) = Pages(NativePages[t])

\* What each task has written so far; an empty listing means an empty inventory.
FetchInv(t) ==
    /\ fetch[t].pc = "listing" =>
          /\ \A i \in 1..(fetch[t].page - 1) : ListedPages[t][i] \subseteq graph
          /\ fetch[t].count = 0 => fetch[t].page = 1
    /\ fetch[t].pc = "native" =>
          /\ \A i \in 1..(fetch[t].page - 1) : NativePages[t][i] \subseteq graph
          /\ fetch[t].cause = "error" \/ Inventory(t) = {}
    /\ fetch[t].pc = "ok" => Inventory(t) \subseteq graph
    /\ fetch[t].pc = "failed" => t \in errors \/ "task_panic" \in errors

RuleRecorded(i) == \/ RuleEdges(Rules[i]) \subseteq related
                   \/ {Rules[i].name, "relationships"} \cap errors # {}

\* Each phase leaves its part written or recorded before the next begins.
LossInv ==
    /\ \A t \in Types : FetchInv(t)
    /\ phase \in {"enrich", "relate"} \/ outcome = "ok" => \A t \in Types : Ended(t)
    /\ phase \in {"payload", "fetch"} => next = 1
    /\ phase = "enrich" => \A i \in 1..(next - 1) : Enrichers[i] \in graph \cup errors
    /\ phase = "relate" \/ outcome = "ok" =>
          \A i \in DOMAIN Enrichers : Enrichers[i] \in graph \cup errors
    /\ phase = "relate" => \A i \in 1..(next - 1) : RuleRecorded(i)
    /\ outcome = "ok" => \A i \in DOMAIN Rules : RuleRecorded(i)
    /\ outcome # "none" => phase = "ended"

\* A listing that ends has written all there is, or there is nothing.
LEMMA ListingComplete ==
    ASSUME TypeOK, FullListing, NEW t \in Types, FetchInv(t),
           fetch[t].pc = "listing", ListingOver(t)
    PROVE  IF fetch[t].count > 0 THEN Inventory(t) \subseteq graph ELSE Inventory(t) = {}
<1> DEFINE pages == ListedPages[t]
<1>1. pages \in Seq(SUBSET Resources) /\ fetch[t].page \in Nat \ {0} /\ fetch[t].count \in Nat
  BY InventoryAssumption DEF TypeOK, Task
<1>2. fetch[t].page \notin DOMAIN pages /\ fetch[t].page =< Len(pages) + 1
  BY DEF FullListing, ListingOver, TypeOK
<1>3. Inventory(t) = Pages(pages)
  BY DEF FullListing, Inventory
<1>4. fetch[t].page = Len(pages) + 1
  BY <1>1, <1>2
<1>5. CASE fetch[t].count > 0
  <2>1. \A i \in DOMAIN pages : pages[i] \subseteq graph
    BY <1>1, <1>4 DEF FetchInv
  <2> QED BY <1>3, <1>5, <2>1 DEF Pages
<1>6. CASE ~(fetch[t].count > 0)
  <2>1. DOMAIN pages = {}
    BY <1>1, <1>4, <1>6 DEF FetchInv
  <2> QED BY <1>3, <1>6, <2>1 DEF Pages
<1> QED BY <1>5, <1>6

\* Every step of a fetch task keeps its own invariant and, the graph and the errors only
\* growing, those of the others.
LEMMA FetchKept ==
    ASSUME TypeOK, FullListing, \A u \in Types : FetchInv(u), NEW t \in Types, FetchStep(t)
    PROVE  \A u \in Types : FetchInv(u)'
<1>1. /\ graph \subseteq graph' /\ errors \subseteq errors'
      /\ \A u \in Types \ {t} : fetch'[u] = fetch[u]
  BY DEF FetchStep, Acquire, ListPage, ListingEnds, ListingFails, NativePage, NativeEnds,
         NativeFails, TaskPanics, TurnNative, TypeOK
<1>2. ASSUME NEW u \in Types \ {t} PROVE FetchInv(u)'
  <2>1. FetchInv(u) /\ fetch'[u] = fetch[u]
    BY <1>1
  <2> QED BY <1>1, <2>1 DEF FetchInv
<1>3. FetchInv(t)'
  <2>1. fetch[t] \in Task /\ fetch \in [Types -> Task]
    BY DEF TypeOK
  <2>2. CASE Acquire(t)
    <3>1. fetch[t] = Waiting /\ fetch'[t].pc = "listing" /\ fetch'[t].page = fetch[t].page
      BY <2>1, <2>2 DEF Acquire, TypeOK, Task
    <3> QED BY <3>1 DEF FetchInv, Waiting
  <2>3. CASE ListPage(t)
    <3> DEFINE n == fetch[t].page
               page == ListedPages[t][n]
    <3>1. /\ n \in DOMAIN ListedPages[t] /\ page # {} /\ page \subseteq Resources
      BY <2>3, InventoryAssumption DEF ListPage, ListingOver
    <3>2. Cardinality(page) \in Nat \ {0}
      BY <3>1, RunAssumption, FS_Subset, FS_CardinalityType, FS_EmptySet
    <3>3. /\ fetch'[t].pc = "listing" /\ fetch'[t].page = n + 1
          /\ fetch'[t].count = fetch[t].count + Cardinality(page)
          /\ graph' = graph \cup page
      <4>1. /\ fetch' = [fetch EXCEPT ![t] = Counted(t, page)]
            /\ graph' = graph \cup page
            /\ fetch[t].pc = "listing"
        BY <2>3 DEF ListPage
      <4>2. /\ Counted(t, page).pc = fetch[t].pc /\ Counted(t, page).page = n + 1
            /\ Counted(t, page).count = fetch[t].count + Cardinality(page)
        BY <2>1 DEF Counted, Task
      <4> QED BY <2>1, <4>1, <4>2
    <3>4. n \in Nat \ {0} /\ fetch'[t].count # 0
      BY <2>1, <3>2, <3>3 DEF Task
    <3>5. \A i \in 1..(n - 1) : ListedPages[t][i] \subseteq graph
      BY <2>3 DEF ListPage, FetchInv
    <3>6. \A i \in 1..n : ListedPages[t][i] \subseteq graph'
      BY <3>3, <3>4, <3>5
    <3> QED BY <3>3, <3>4, <3>6 DEF FetchInv
  <2>4. CASE ListingEnds(t)
    <3>1. IF fetch[t].count > 0 THEN Inventory(t) \subseteq graph ELSE Inventory(t) = {}
      BY <2>4, ListingComplete DEF ListingEnds
    <3>2. CASE fetch[t].count > 0
      <4>1. fetch'[t].pc = "ok"
        BY <2>1, <2>4, <3>2 DEF ListingEnds, Task
      <4> QED BY <1>1, <3>1, <3>2, <4>1 DEF FetchInv, Inventory
    <3>3. CASE ~(fetch[t].count > 0)
      <4>1. fetch'[t].pc = "native" /\ fetch'[t].page = 1
        BY <2>1, <2>4, <3>3 DEF ListingEnds, TurnNative, Task
      <4> QED BY <3>1, <3>3, <4>1 DEF FetchInv, Inventory
    <3> QED BY <3>2, <3>3
  <2>5. CASE ListingFails(t)
    <3>1. fetch'[t].pc = "native" /\ fetch'[t].page = 1 /\ fetch'[t].cause = "error"
      BY <2>1, <2>5 DEF ListingFails, TurnNative, Task
    <3> QED BY <3>1 DEF FetchInv
  <2>6. CASE NativePage(t)
    <3> DEFINE n == fetch[t].page
    <3>1. /\ fetch'[t].pc = "native" /\ fetch'[t].page = n + 1
          /\ fetch'[t].cause = fetch[t].cause
          /\ graph' = graph \cup NativePages[t][n]
      <4>1. /\ fetch' = [fetch EXCEPT ![t] = Counted(t, NativePages[t][n])]
            /\ graph' = graph \cup NativePages[t][n]
            /\ fetch[t].pc = "native"
        BY <2>6 DEF NativePage
      <4>2. /\ Counted(t, NativePages[t][n]).pc = fetch[t].pc
            /\ Counted(t, NativePages[t][n]).page = n + 1
            /\ Counted(t, NativePages[t][n]).cause = fetch[t].cause
        BY <2>1 DEF Counted, Task
      <4> QED BY <2>1, <4>1, <4>2
    <3>2. n \in Nat \ {0}
      BY <2>1 DEF Task
    <3>3. \A i \in 1..(n - 1) : NativePages[t][i] \subseteq graph
      BY <2>6 DEF NativePage, FetchInv
    <3>4. \A i \in 1..n : NativePages[t][i] \subseteq graph'
      BY <3>1, <3>2, <3>3
    <3>5. fetch[t].cause = "error" \/ Inventory(t) = {}
      BY <2>6 DEF NativePage, FetchInv
    <3>6. fetch'[t].page - 1 = n
      BY <3>1, <3>2
    <3>7. (fetch'[t].cause = "error" \/ Inventory(t) = {})
      BY <3>1, <3>5
    <3> HIDE DEF n
    <3> QED BY <3>1, <3>4, <3>6, <3>7 DEF FetchInv, Inventory
  <2>7. CASE NativeEnds(t)
    <3>1. /\ fetch[t].page > Len(NativePages[t]) /\ fetch'[t].pc = "ok"
          /\ NativePages[t] \in Seq(SUBSET Resources) /\ fetch[t].page \in Nat
      BY <2>1, <2>7, InventoryAssumption DEF NativeEnds, FullListing, Task
    <3>2. \A i \in DOMAIN NativePages[t] : NativePages[t][i] \subseteq graph
      BY <2>7, <3>1 DEF NativeEnds, FetchInv
    <3>3. Inventory(t) \subseteq graph
      BY <3>2 DEF FullListing, Inventory, Pages
    <3> QED BY <1>1, <3>1, <3>3 DEF FetchInv, Inventory
  <2>8. CASE NativeFails(t)
    <3>1. CASE fetch[t].cause = "error"
      <4>1. fetch'[t].pc = "failed" /\ t \in errors'
        BY <2>1, <2>8, <3>1 DEF NativeFails, Task
      <4> QED BY <4>1 DEF FetchInv
    <3>2. CASE fetch[t].cause # "error"
      <4>1. fetch'[t].pc = "ok" /\ Inventory(t) = {}
        BY <2>1, <2>8, <3>2 DEF NativeFails, Task, FetchInv
      <4> QED BY <4>1 DEF FetchInv, Inventory
    <3> QED BY <3>1, <3>2
  <2>9. CASE TaskPanics(t)
    <3>1. fetch'[t].pc = "failed" /\ "task_panic" \in errors'
      BY <2>1, <2>9 DEF TaskPanics, Task
    <3> QED BY <3>1 DEF FetchInv
  <2> QED BY <2>2, <2>3, <2>4, <2>5, <2>6, <2>7, <2>8, <2>9 DEF FetchStep
<1> QED BY <1>2, <1>3

\* Every step of a run keeps LossInv.
LEMMA LossStep ==
    ASSUME TypeOK, FullListing, LossInv, [Next]_vars
    PROVE  LossInv'
<1>1. CASE UNCHANGED vars
  BY <1>1 DEF vars, LossInv, FetchInv, Ended, RuleRecorded, RuleEdges, Inventory
<1>2. ASSUME NEW t \in Types, FetchStep(t) PROVE LossInv'
  <2>1. \A u \in Types : FetchInv(u)'
    BY <1>2, FetchKept DEF LossInv
  <2>2. /\ phase' = phase /\ next' = next /\ outcome' = outcome
        /\ graph \subseteq graph' /\ errors \subseteq errors'
        /\ \A u \in Types \ {t} : fetch'[u] = fetch[u]
        /\ ~Ended(t)
    BY <1>2 DEF FetchStep, Acquire, ListPage, ListingEnds, ListingFails, NativePage,
           NativeEnds, NativeFails, TaskPanics, TurnNative, TypeOK, Ended, InFlight
  <2>3. phase \notin {"enrich", "relate"} /\ outcome # "ok"
    BY <2>2 DEF LossInv
  <2> QED BY <2>1, <2>2, <2>3 DEF LossInv
<1>3. CASE Next /\ fetch' = fetch /\ graph \subseteq graph' /\ errors \subseteq errors'
  <2>1. \A u \in Types : FetchInv(u)'
    <3>1. ASSUME NEW u \in Types PROVE FetchInv(u)'
      <4>1. FetchInv(u)
        BY DEF LossInv
      <4> QED BY <1>3, <4>1 DEF FetchInv
    <3> QED BY <3>1
  <2>2. CASE RejectPayload \/ AcceptPayload
    BY <1>3, <2>1, <2>2 DEF RejectPayload, AcceptPayload, LossInv
  <2>3. CASE EndFetch
    BY <1>3, <2>1, <2>3 DEF EndFetch, LossInv, Ended
  <2>4. CASE Enrich \/ EnrichFails
    <3>1. /\ phase' = "enrich" /\ outcome' = outcome /\ next' = next + 1 /\ next \in Nat \ {0}
          /\ phase = "enrich" /\ Enrichers[next] \in graph' \cup errors'
      BY <2>4 DEF Enrich, EnrichFails, TypeOK
    <3>2. \A i \in 1..next : Enrichers[i] \in graph' \cup errors'
      BY <1>3, <3>1 DEF LossInv
    <3> QED BY <1>3, <2>1, <3>1, <3>2 DEF LossInv, Ended
  <2>5. CASE EndEnrich
    <3>1. /\ phase' = "relate" /\ outcome' = outcome /\ next' = 1 /\ phase = "enrich"
          /\ next > Len(Enrichers) /\ next \in Nat /\ Enrichers \in Seq(Joins)
      BY <2>5, RunAssumption DEF EndEnrich, TypeOK
    <3>2. \A i \in DOMAIN Enrichers : Enrichers[i] \in graph' \cup errors'
      BY <1>3, <3>1 DEF LossInv
    <3> QED BY <1>3, <2>1, <3>1, <3>2 DEF LossInv, Ended
  <2>6. CASE CannotRelate
    <3>1. phase = "relate" /\ phase' = "ended" /\ "relationships" \in errors'
      BY <2>6 DEF CannotRelate
    <3> QED BY <1>3, <2>1, <3>1 DEF LossInv, Ended, RuleRecorded
  <2>7. CASE ApplyRule \/ RuleFails
    <3>1. /\ phase' = "relate" /\ outcome' = outcome /\ next' = next + 1 /\ next \in Nat \ {0}
          /\ phase = "relate" /\ graph' = graph /\ related \subseteq related'
          /\ RuleEdges(Rules[next]) \subseteq related' \/ Rules[next].name \in errors'
      BY <2>7 DEF ApplyRule, RuleFails, TypeOK
    <3>2. \A i \in 1..(next - 1) : RuleRecorded(i)
      BY <3>1 DEF LossInv
    <3>3. \A i : RuleEdges(Rules[i])' = RuleEdges(Rules[i])
      BY <3>1 DEF RuleEdges
    <3>4. \A i \in 1..next : RuleRecorded(i)'
      BY <1>3, <3>1, <3>2, <3>3 DEF RuleRecorded
    <3> QED BY <1>3, <2>1, <3>1, <3>4 DEF LossInv, Ended
  <2>8. CASE EndRun
    <3>1. /\ phase' = "ended" /\ phase = "relate" /\ outcome' = "ok"
          /\ next > Len(Rules) /\ next \in Nat /\ DOMAIN Rules = 1..Len(Rules)
          /\ graph' = graph /\ related' = related /\ errors' = errors
      BY <2>8, RunAssumption DEF EndRun, TypeOK
    <3>2. \A i \in DOMAIN Rules : RuleRecorded(i)
      BY <3>1, RunAssumption DEF LossInv
    <3>3. \A i \in DOMAIN Rules : RuleRecorded(i)'
      BY <3>1, <3>2 DEF RuleRecorded, RuleEdges
    <3> QED BY <1>3, <2>1, <3>1, <3>3 DEF LossInv, Ended
  <2>9. CASE \E t \in Types : FetchStep(t)
    BY <1>2, <2>9
  <2> QED BY <1>3, <2>2, <2>3, <2>4, <2>5, <2>6, <2>7, <2>8, <2>9 DEF Next
<1>4. ASSUME Next, ~ \E t \in Types : FetchStep(t)
      PROVE  fetch' = fetch /\ graph \subseteq graph' /\ errors \subseteq errors'
  <2>1. CASE RejectPayload \/ AcceptPayload \/ EndFetch \/ EndEnrich \/ EndRun
    BY <2>1 DEF RejectPayload, AcceptPayload, EndFetch, EndEnrich, EndRun
  <2>2. CASE Enrich \/ EnrichFails
    BY <2>2 DEF Enrich, EnrichFails
  <2>3. CASE CannotRelate \/ ApplyRule \/ RuleFails
    BY <2>3 DEF CannotRelate, ApplyRule, RuleFails
  <2> QED BY <1>4, <2>1, <2>2, <2>3 DEF Next
<1> QED BY <1>1, <1>2, <1>3, <1>4

\* When both ways to fetch list everything, a completed run has written every resource,
\* enrichment and rule, or names what it has not.
THEOREM LossAlwaysRecorded ==
    ASSUME FullListing
    PROVE  Spec => []LossRecorded
<1>1. Init => LossInv
  BY DEF Init, LossInv, FetchInv, Waiting
<1>2. TypeOK /\ LossInv /\ [Next]_vars => LossInv'
  BY LossStep
<1>3. TypeOK /\ LossInv => LossRecorded
  BY DEF LossInv, LossRecorded, FetchInv, Ended, RuleRecorded
<1> QED BY <1>1, <1>2, <1>3, TypeCorrect, PTL DEF Spec

=============================================================================
