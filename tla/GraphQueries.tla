---------------------------- MODULE GraphQueries ----------------------------
(***************************************************************************)
(* The read queries of activable-graph (client.rs, query_builder.rs).  A   *)
(* vertex is a record with a label, an id and a number: MERGE on all       *)
(* properties leaves several vertices with one id.  An edge has a type and *)
(* leads from a vertex to a vertex.  LIMIT keeps rows in no order.         *)
(***************************************************************************)
EXTENDS Naturals, Sequences, FiniteSets, FiniteSetsExt

CONSTANTS
    Vertices,
    RowLimit,       \* LIMIT 100
    MaxWalkResults, \* the largest limit of walkEdges, 10
    MaxEdgeTypes,   \* and the most edge types it takes, 10
    MaxDepth        \* the largest depth of blastRadius, 10

-----------------------------------------------------------------------------
(* Patterns *)

\* Mutant: a path is cut one hop too early.
TrailsCutEarly(edges, id, hops) ==
    LET trails[n \in 1..hops] ==
            IF n = 1
            THEN {<<e>> : e \in {f \in edges : f.from.id = id}}
            ELSE {Append(t, e) : t \in trails[n - 1], e \in edges}
    IN  {t \in UNION {trails[n] : n \in 1..hops - 1} :
            \A i \in 2..Len(t) : t[i].from = t[i - 1].to /\ \A j \in 1..i - 1 : t[j] # t[i]}

\* ({id})-[*1..hops]->(): the paths that use no edge twice, from any vertex with the id.
Trails(edges, id, hops) ==
    LET follows(t, e) == e.from = t[Len(t)].to /\ \A i \in DOMAIN t : t[i] # e
        trails[n \in 1..hops] ==
            IF n = 1
            THEN {<<e>> : e \in {f \in edges : f.from.id = id}}
            ELSE UNION {{Append(t, e) : e \in {f \in edges : follows(t, f)}} : t \in trails[n - 1]}
    IN  UNION {trails[n] : n \in 1..hops}

Target(trail) == trail[Len(trail)].to

\* No type stands for all; a path of variable length takes one type at most.
OfTypes(edges, types) == IF types = {} THEN edges ELSE {e \in edges : e.type \in types}

Limited(rows, limit) == IF Cardinality(rows) <= limit THEN {rows} ELSE kSubset(limit, rows)

-----------------------------------------------------------------------------
(* Queries *)

\* walk_edges: one row for each edge.
Walks(edges, id, types, direction, limit) ==
    LET typed    == OfTypes(edges, types)
        outgoing == {[edge |-> e, at |-> e.to] : e \in {f \in typed : f.from.id = id}}
        incoming == {[edge |-> e, at |-> e.from] : e \in {f \in typed : f.to.id = id}}
        rows     == CASE direction = "outgoing" -> outgoing
                      [] direction = "incoming" -> incoming
                      [] direction = "both"     -> outgoing \cup incoming
    IN  Limited(rows, limit)

\* blast_radius: one row for each path, not for each vertex.
BlastRows(edges, id, types, hops) == Trails(OfTypes(edges, types), id, hops)

BlastCount(edges, id, types, hops) ==
    Min({RowLimit, Cardinality(BlastRows(edges, id, types, hops))})

\* The answers there may be; more than one type is an error.
BlastRadius(edges, id, types, hops) ==
    IF Cardinality(types) > 1
    THEN {}
    ELSE {{Target(row) : row \in rows} : rows \in Limited(BlastRows(edges, id, types, hops), RowLimit)}

\* subgraph: the same rows, beside the centre.
Subgraph(edges, id, radius) == BlastRadius(edges, id, {}, radius)

\* shortest_path_length: a path has one edge at least, from a vertex to itself too.
PathLengths(edges, from, to, hops) ==
    {n \in 1..hops : \E t \in Trails(edges, from, hops) : Len(t) = n /\ Target(t).id = to}

-----------------------------------------------------------------------------
(* The resolvers of activable-graphql; an argument out of bounds is an error. *)

WalkEdges(edges, id, types, direction, limit) ==
    IF /\ Cardinality(types) <= MaxEdgeTypes
       /\ limit \in 0..MaxWalkResults
       /\ direction \in {"outgoing", "incoming", "both"}
    THEN Walks(edges, id, types, direction, limit)
    ELSE {}

BlastWithin(edges, id, depth) ==
    IF depth \in 0..MaxDepth THEN BlastRadius(edges, id, {}, depth) ELSE {}

=============================================================================
