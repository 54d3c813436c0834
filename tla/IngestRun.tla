----------------------------- MODULE IngestRun -----------------------------
(***************************************************************************)
(* One attempt of an account_ingest job: AccountIngestHandler::handle and  *)
(* ingest_account (src/handler.rs, src/executor.rs of activable-ingest),   *)
(* with the two ways to fetch a resource type.                             *)
(*                                                                         *)
(* Fetch tasks run concurrently, at most Limit at a time; enrichers and    *)
(* then relationship rules follow one by one.  A page is what one call of  *)
(* a loader writes, so a page is in the graph whole or not at all.         *)
(***************************************************************************)
EXTENDS Naturals, Sequences, FiniteSets

CONSTANTS
    Types,          \* the registry's resource types
    Resources,
    ListedPages,    \* the pages that Cloud Control lists of each type
    NativePages,    \* the pages that the native SDK lists of each type
    HasFallback,    \* the types with a fallback configured
    Limit,          \* permits of the semaphore
    Joins,          \* the names of enrichers and relationship rules
    Enrichers,      \* the enrichers, in order
    Enriched,       \* the nodes that each enricher loads
    Rules,          \* the rules of relationships.yaml, in order
    Label,          \* the label of a resource's node
    Property,       \* its properties, by name
    SafeNames,      \* the names that validate_property_name accepts
    Failures        \* may calls fail and tasks panic?

ASSUME InventoryAssumption ==
    /\ ListedPages \in [Types -> Seq(SUBSET Resources)]
    /\ NativePages \in [Types -> Seq(SUBSET Resources)]
    /\ HasFallback \subseteq Types

ASSUME RunAssumption ==
    /\ IsFiniteSet(Types)
    /\ IsFiniteSet(Resources)
    /\ Limit \in Nat \ {0}
    /\ Enrichers \in Seq(Joins)
    /\ Enriched \in [Joins -> SUBSET Resources]
    /\ Rules \in Seq([name : Joins,
                      from_label : STRING, from_property : STRING, edge_type : STRING,
                      to_label : STRING, to_property : STRING])
    /\ Failures \in BOOLEAN

VARIABLES
    phase,
    fetch,          \* the fetch task of each type
    graph,          \* the resources written by this run, and the enrichers that succeeded
    related,        \* the edges that relationship rules have merged
    next,           \* the enricher or rule whose turn it is
    errors,         \* IngestRunStats.errors and skipped_rules, by what they name
    outcome         \* what handle returns

vars == <<phase, fetch, graph, related, next, errors, outcome>>

Waiting == [pc |-> "waiting", page |-> 1, count |-> 0, cause |-> "none"]

Ended(t) == fetch[t].pc \in {"ok", "failed"}

\* Mutant: the permit is kept when the task has ended.
InFlightKept == {t \in Types : fetch[t].pc # "waiting"}

InFlight == {t \in Types : fetch[t].pc \in {"listing", "native"}}

-----------------------------------------------------------------------------
(* handle *)

\* Malformed payload or account id: not retried.
RejectPayload ==
    /\ phase = "payload"
    /\ phase' = "ended"
    /\ outcome' = "permanent"
    /\ UNCHANGED <<fetch, graph, next, errors, related>>

AcceptPayload ==
    /\ phase = "payload"
    /\ phase' = "fetch"
    /\ UNCHANGED <<fetch, graph, next, errors, outcome, related>>

-----------------------------------------------------------------------------
(* Phase 1: fetch *)

Acquire(t) ==
    /\ phase = "fetch"
    /\ fetch[t].pc = "waiting"
    /\ Cardinality(InFlight) < Limit
    /\ fetch' = [fetch EXCEPT ![t].pc = "listing"]
    /\ UNCHANGED <<phase, graph, next, errors, outcome, related>>

\* The fetch of a type turns to the native SDK, from its first page and with a count of its own.
TurnNative(t, cause) ==
    fetch' = [fetch EXCEPT ![t] = [pc |-> "native", page |-> 1, count |-> 0, cause |-> cause]]

\* Is there a call to make? The first is made whatever there is to list.
Calls(t, pages) == fetch[t].page \in DOMAIN pages \cup {1}

ListingOver(t) ==
    fetch[t].page \in DOMAIN ListedPages[t] => ListedPages[t][fetch[t].page] = {}

\* fetch_via_ccapi stops at the last page, and at an empty one whatever follows it.
\* Nothing listed: try the native SDK.
ListingEnds(t) ==
    /\ fetch[t].pc = "listing"
    /\ ListingOver(t)
    /\ IF fetch[t].count > 0 THEN fetch' = [fetch EXCEPT ![t].pc = "ok"]
                             ELSE TurnNative(t, "empty")
    /\ UNCHANGED <<phase, graph, next, errors, outcome, related>>

\* A page is loaded: on to the next one.
Counted(t, page) == [fetch[t] EXCEPT !.page = fetch[t].page + 1,
                                     !.count = fetch[t].count + Cardinality(page)]

ListPage(t) ==
    /\ fetch[t].pc = "listing"
    /\ ~ListingOver(t)
    /\ LET page == ListedPages[t][fetch[t].page] IN
          /\ graph' = graph \cup page
          /\ fetch' = [fetch EXCEPT ![t] = Counted(t, page)]
    /\ UNCHANGED <<phase, next, errors, outcome, related>>

\* A request or the load of a page fails: earlier pages stay, the native SDK begins anew.
ListingFails(t) ==
    /\ Failures
    /\ fetch[t].pc = "listing"
    /\ Calls(t, ListedPages[t])
    /\ TurnNative(t, "error")
    /\ UNCHANGED <<phase, graph, next, errors, outcome, related>>

NativePage(t) ==
    /\ fetch[t].pc = "native"
    /\ t \in HasFallback
    /\ fetch[t].page =< Len(NativePages[t])
    /\ LET page == NativePages[t][fetch[t].page] IN
          /\ graph' = graph \cup page
          /\ fetch' = [fetch EXCEPT ![t] = Counted(t, page)]
    /\ UNCHANGED <<phase, next, errors, outcome, related>>

\* Also the case of no fallback: Ok with nothing ingested.
NativeEnds(t) ==
    /\ fetch[t].pc = "native"
    /\ t \in HasFallback => fetch[t].page > Len(NativePages[t])
    /\ fetch' = [fetch EXCEPT ![t].pc = "ok"]
    /\ UNCHANGED <<phase, graph, next, errors, outcome, related>>

\* Mutant: a failed type is left out of the errors.
NativeFailsUnheard(t) ==
    /\ Failures
    /\ fetch[t].pc = "native"
    /\ t \in HasFallback
    /\ Calls(t, NativePages[t])
    /\ fetch' = [fetch EXCEPT ![t].pc = IF fetch[t].cause = "error" THEN "failed" ELSE "ok"]
    /\ UNCHANGED <<phase, graph, next, errors, outcome, related>>

\* After a failed listing the type has failed; after an empty one the empty result stands.
NativeFails(t) ==
    /\ Failures
    /\ fetch[t].pc = "native"
    /\ t \in HasFallback
    /\ Calls(t, NativePages[t])
    /\ IF fetch[t].cause = "error"
       THEN /\ fetch' = [fetch EXCEPT ![t].pc = "failed"]
            /\ errors' = errors \cup {t}
       ELSE /\ fetch' = [fetch EXCEPT ![t].pc = "ok"]
            /\ UNCHANGED errors
    /\ UNCHANGED <<phase, graph, next, outcome, related>>

\* join_next reports a panic without the type it fetched.
TaskPanics(t) ==
    /\ Failures
    /\ t \in InFlight
    /\ fetch' = [fetch EXCEPT ![t].pc = "failed"]
    /\ errors' = errors \cup {"task_panic"}
    /\ UNCHANGED <<phase, graph, next, outcome, related>>

EndFetch ==
    /\ phase = "fetch"
    /\ \A t \in Types : Ended(t)
    /\ phase' = "enrich"
    /\ UNCHANGED <<fetch, graph, next, errors, outcome, related>>

-----------------------------------------------------------------------------
(* Phases 2 and 3: enrich, relate *)

Enrich ==
    /\ phase = "enrich"
    /\ next =< Len(Enrichers)
    /\ graph' = graph \cup {Enrichers[next]} \cup Enriched[Enrichers[next]]
    /\ next' = next + 1
    /\ UNCHANGED <<phase, fetch, errors, outcome, related>>

\* What it loaded before it failed stays; the other enrichers go on.
EnrichFails ==
    /\ Failures
    /\ phase = "enrich"
    /\ next =< Len(Enrichers)
    /\ errors' = errors \cup {Enrichers[next]}
    /\ next' = next + 1
    /\ \E loaded \in SUBSET Enriched[Enrichers[next]] : graph' = graph \cup loaded
    /\ UNCHANGED <<phase, fetch, outcome, related>>

EndEnrich ==
    /\ phase = "enrich"
    /\ next > Len(Enrichers)
    /\ phase' = "relate"
    /\ next' = 1
    /\ UNCHANGED <<fetch, graph, errors, outcome, related>>

\* apply_relationships gets no connection: no rule is applied.
CannotRelate ==
    /\ Failures
    /\ phase = "relate"
    /\ next = 1
    /\ errors' = errors \cup {"relationships"}
    /\ phase' = "ended"
    /\ outcome' = "ok"
    /\ UNCHANGED <<fetch, graph, next, related>>

\* Every name in the query must be alphanumeric, or the rule is refused.
Validated(rule) ==
    {rule.from_property, rule.to_property, rule.edge_type, rule.from_label, rule.to_label}
        \subseteq SafeNames

\* MATCH (f:From), (t:To) WHERE f.from_property = t.to_property; a property that a
\* node lacks is null, which equals nothing.
Joined(rule, f, t) ==
    /\ Label[f] = rule.from_label
    /\ Label[t] = rule.to_label
    /\ rule.from_property \in DOMAIN Property[f]
    /\ rule.to_property \in DOMAIN Property[t]
    /\ Property[f][rule.from_property] = Property[t][rule.to_property]

\* MERGE (f)-[:Type]->(t) for all that the graph joins at that moment.
RuleEdges(rule) ==
    LET nodes == graph \cap Resources
    IN  {e \in nodes \X {rule.edge_type} \X nodes : Joined(rule, e[1], e[3])}

ApplyRule ==
    /\ phase = "relate"
    /\ next =< Len(Rules)
    /\ Validated(Rules[next])
    /\ related' = related \cup RuleEdges(Rules[next])
    /\ next' = next + 1
    /\ UNCHANGED <<phase, fetch, graph, errors, outcome>>

\* The rule is refused, its MERGE fails, or the count it returns cannot be read.
RuleFails ==
    /\ phase = "relate"
    /\ next =< Len(Rules)
    /\ errors' = errors \cup {Rules[next].name}
    /\ next' = next + 1
    /\ \/ ~Validated(Rules[next]) /\ related' = related
       \/ /\ Failures /\ Validated(Rules[next])
          /\ related' \in {related, related \cup RuleEdges(Rules[next])}
    /\ UNCHANGED <<phase, fetch, graph, outcome>>

\* Whatever errors says, ingest_account returns Ok.
EndRun ==
    /\ phase = "relate"
    /\ next > Len(Rules)
    /\ phase' = "ended"
    /\ outcome' = "ok"
    /\ UNCHANGED <<fetch, graph, next, errors, related>>

-----------------------------------------------------------------------------
(* Specification *)

Init ==
    /\ phase = "payload"
    /\ fetch = [t \in Types |-> Waiting]
    /\ graph = {}
    /\ related = {}
    /\ next = 1
    /\ errors = {}
    /\ outcome = "none"

FetchStep(t) ==
    \/ Acquire(t)
    \/ ListPage(t) \/ ListingEnds(t) \/ ListingFails(t)
    \/ NativePage(t) \/ NativeEnds(t) \/ NativeFails(t)
    \/ TaskPanics(t)

Next ==
    \/ RejectPayload \/ AcceptPayload
    \/ \E t \in Types : FetchStep(t)
    \/ EndFetch
    \/ Enrich \/ EnrichFails \/ EndEnrich
    \/ CannotRelate \/ ApplyRule \/ RuleFails \/ EndRun

\* The run is a future that a worker awaits: it goes on as long as it can.
Spec == Init /\ [][Next]_vars /\ WF_vars(Next)

-----------------------------------------------------------------------------
(* Properties *)

Task == [pc : {"waiting", "listing", "native", "ok", "failed"},
         page : Nat \ {0}, count : Nat, cause : {"none", "empty", "error"}]

ErrorNames == Types \cup Joins \cup {"task_panic", "relationships"}

\* The state of a run has its types; page and next never pass the end by more than one.
TypeOK ==
    /\ phase \in {"payload", "fetch", "enrich", "relate", "ended"}
    /\ fetch \in [Types -> Task]
    /\ \A t \in Types : /\ fetch[t].pc = "waiting" => fetch[t] = Waiting
                        /\ fetch[t].pc = "listing" => fetch[t].page =< Len(ListedPages[t]) + 1
                        /\ fetch[t].pc = "native" => fetch[t].page =< Len(NativePages[t]) + 1
    /\ graph \subseteq Resources \cup Joins
    /\ related \subseteq Resources \X STRING \X Resources
    /\ next \in Nat \ {0}
    /\ errors \subseteq ErrorNames
    /\ outcome \in {"none", "ok", "permanent"}

\* No more fetches run at a time than the semaphore has permits.
WithinLimit == Cardinality(InFlight) =< Limit

\* Enrichers and rules join what fetches have written: no task writes nodes any more
\* once the first of them runs.
NodesBeforeEdges == phase \in {"enrich", "relate", "ended"} => InFlight = {}

Pages(s) == UNION {s[i] : i \in DOMAIN s}

Inventory(t) == Pages(ListedPages[t]) \cup Pages(NativePages[t])

\* A completed run whose graph lacks a resource, an enrichment, or an edge that a rule
\* derives from what is in the graph, says so in its errors, be it only with a panic that
\* names no type: no node arrives after the rules that would have joined it.
LossRecorded ==
    outcome = "ok" =>
        /\ \A t \in Types : Inventory(t) \subseteq graph \/ t \in errors \/ "task_panic" \in errors
        /\ \A i \in DOMAIN Enrichers : Enrichers[i] \in graph \cup errors
        /\ \A i \in DOMAIN Rules :
              \/ RuleEdges(Rules[i]) \subseteq related
              \/ {Rules[i].name, "relationships"} \cap errors # {}

\* The handler returns whatever fails, provided that every call does; so the worker always
\* has an outcome to record.
RunEnds == <>(outcome # "none")

=============================================================================
