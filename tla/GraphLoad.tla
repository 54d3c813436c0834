----------------------------- MODULE GraphLoad -----------------------------
(***************************************************************************)
(* The bulk loaders of activable-graph (src/loader.rs): load_nodes and     *)
(* load_edges_with_props_identifying, of which load_edges and              *)
(* load_edges_with_props are the case without identifying properties.      *)
(*                                                                         *)
(* A load is one transaction of one MERGE statement per item.  Postgres    *)
(* runs it READ COMMITTED: a statement sees what has been committed before *)
(* it and what its own transaction wrote.  AGE has no uniqueness           *)
(* constraint, so MERGE creates whatever it does not see.                  *)
(*                                                                         *)
(* Loaders are tasks: fetch tasks and enrichers of the jobs that run at    *)
(* one time.  Each may load again, a later run of the same job, with what  *)
(* AWS returns then.                                                       *)
(***************************************************************************)
EXTENDS Naturals, Sequences, FiniteSets

CONSTANTS
    Loaders,
    Labels, Ids,
    Attrs,          \* the values of the properties of a node other than its id
    Keys,           \* the values of the identifying properties of an edge
    LoadsOf,        \* what each loader may be asked to load
    MaxRuns,        \* bound on the loads of one loader
    Exclusive,      \* is one load over before another begins?
    Errors          \* may a statement fail or a process die?

\* Nodes are given by id and properties, edges by the ids they join and the properties
\* named in identifying_keys; the edge properties that SET writes are left out.
NodeItem == [id : Ids, attrs : SUBSET Attrs]

EdgeItem == [from : Ids, to : Ids, key : Keys]

ASSUME LoadsAssumption ==
    \A l \in Loaders : \A load \in LoadsOf[l] :
        /\ load.label \in Labels
        /\ load.strict \in BOOLEAN
        /\ \/ load.kind = "nodes" /\ load.items \in Seq(NodeItem)
           \/ load.kind = "edges" /\ load.items \in Seq(EdgeItem)

ASSUME EnvironmentAssumption ==
    /\ MaxRuns \in Nat
    /\ Exclusive \in BOOLEAN
    /\ Errors \in BOOLEAN

VARIABLES
    vertices,       \* the committed graph
    edges,
    task            \* the loaders and their open transactions

vars == <<vertices, edges, task>>

NoLoad == [kind |-> "none", label |-> "none", items |-> <<>>, strict |-> FALSE]

Fresh(pc, run, load) == [pc |-> pc, run |-> run, load |-> load, next |-> 1,
                         vs |-> {}, es |-> {}, created |-> 0, dropped |-> 0]

Item(l) == task[l].load.items[task[l].next]

More(l) == task[l].next =< Len(task[l].load.items)

Open(l) == task[l].pc = "open"

-----------------------------------------------------------------------------
(* MERGE *)

VisibleVertices(l) == vertices \cup task[l].vs

VisibleEdges(l) == edges \cup task[l].es

\* Mutant: CREATE.
MatchesNever(v, label, n) == FALSE

\* MERGE (n:Label {all properties}) finds a vertex that has them, and maybe more.
Matches(v, label, n) == v.label = label /\ v.id = n.id /\ n.attrs \subseteq v.attrs

\* by stands for the internal id AGE gives a vertex or an edge: a loader sees its
\* own writes, so it creates one with given properties at most once.
NewVertex(l, n) == [label |-> task[l].load.label, id |-> n.id, attrs |-> n.attrs,
                    by |-> [loader |-> l, run |-> task[l].run]]

MergedVertices(l, n) ==
    IF \E v \in VisibleVertices(l) : Matches(v, task[l].load.label, n)
    THEN {} ELSE {NewVertex(l, n)}

\* MATCH (a {id: from}), (b {id: to}): whatever their labels.
Endpoints(l, e) == {p \in VisibleVertices(l) \X VisibleVertices(l) :
                        p[1].id = e.from /\ p[2].id = e.to}

\* Mutant: MERGE on the endpoints alone.
MatchesEndpoints(x, label, e, a, b) == x.label = label /\ x.from = a /\ x.to = b

\* Mutant: CREATE.
MatchesNoEdge(x, label, e, a, b) == FALSE

MatchesEdge(x, label, e, a, b) ==
    x.label = label /\ x.from = a /\ x.to = b /\ x.key = e.key

NewEdge(l, e, a, b) == [label |-> task[l].load.label, from |-> a, to |-> b, key |-> e.key,
                        by |-> [loader |-> l, run |-> task[l].run]]

MergedEdges(l, e) ==
    {NewEdge(l, e, p[1], p[2]) :
        p \in {q \in Endpoints(l, e) :
                  ~ \E x \in VisibleEdges(l) : MatchesEdge(x, task[l].load.label, e, q[1], q[2])}}

-----------------------------------------------------------------------------
(* Steps of a load *)

\* Nothing to load: Ok without a connection.  Otherwise a connection, LOAD 'age'
\* and BEGIN.
Begin(l) ==
    /\ task[l].pc \in {"idle", "done", "failed"}
    /\ task[l].run < MaxRuns
    /\ Exclusive => \A k \in Loaders : ~Open(k)
    /\ \E load \in LoadsOf[l] :
          task' = [task EXCEPT ![l] = Fresh(IF load.items = <<>> THEN "done" ELSE "open",
                                            task[l].run + 1, load)]
    /\ UNCHANGED <<vertices, edges>>

\* No connection, LOAD fails, the label is not accepted: Err before BEGIN.
CannotBegin(l) ==
    /\ Errors
    /\ task[l].pc \in {"idle", "done", "failed"}
    /\ task[l].run < MaxRuns
    /\ \E load \in LoadsOf[l] :
          /\ load.items # <<>>
          /\ task' = [task EXCEPT ![l] = Fresh("failed", task[l].run + 1, load)]
    /\ UNCHANGED <<vertices, edges>>

MergeNode(l) ==
    /\ Open(l) /\ More(l) /\ task[l].load.kind = "nodes"
    /\ task' = [task EXCEPT ![l] =
                   [task[l] EXCEPT !.vs = task[l].vs \cup MergedVertices(l, Item(l)),
                                   !.next = task[l].next + 1,
                                   !.created = task[l].created + 1]]
    /\ UNCHANGED <<vertices, edges>>

MergeEdge(l) ==
    /\ Open(l) /\ More(l) /\ task[l].load.kind = "edges"
    /\ Endpoints(l, Item(l)) # {}
    /\ task' = [task EXCEPT ![l] =
                   [task[l] EXCEPT !.es = task[l].es \cup MergedEdges(l, Item(l)),
                                   !.next = task[l].next + 1,
                                   !.created = task[l].created + 1]]
    /\ UNCHANGED <<vertices, edges>>

\* The query returns no row; lenient mode warns and goes on.
DropEdge(l) ==
    /\ Open(l) /\ More(l) /\ task[l].load.kind = "edges"
    /\ Endpoints(l, Item(l)) = {}
    /\ ~task[l].load.strict
    /\ task' = [task EXCEPT ![l] = [task[l] EXCEPT !.next = task[l].next + 1,
                                                   !.dropped = task[l].dropped + 1]]
    /\ UNCHANGED <<vertices, edges>>

\* Mutant: the transaction's writes are published before all items are through.
CommitEarly(l) ==
    /\ Open(l)
    /\ vertices' = vertices \cup task[l].vs
    /\ edges' = edges \cup task[l].es
    /\ task' = [task EXCEPT ![l] = [task[l] EXCEPT !.pc = IF More(l) THEN "open" ELSE "done",
                                                   !.vs = {}, !.es = {}]]

\* The call has returned: what its transaction held is published or gone.
Closed(l, pc) == [task[l] EXCEPT !.pc = pc, !.vs = {}, !.es = {}]

\* COMMIT; when its reply is lost the loader returns Err for what is committed.
Commit(l) ==
    /\ Open(l) /\ ~More(l)
    /\ vertices' = vertices \cup task[l].vs
    /\ edges' = edges \cup task[l].es
    /\ \E pc \in {"done"} \cup (IF Errors THEN {"failed"} ELSE {}) :
          task' = [task EXCEPT ![l] = Closed(l, pc)]

\* Strict mode: COMMIT what has been merged so far, then Err.
RejectEdge(l) ==
    /\ Open(l) /\ More(l) /\ task[l].load.kind = "edges"
    /\ Endpoints(l, Item(l)) = {}
    /\ task[l].load.strict
    /\ edges' = edges \cup task[l].es
    /\ task' = [task EXCEPT ![l] = [task[l] EXCEPT !.pc = "failed", !.es = {},
                                                   !.dropped = task[l].dropped + 1]]
    /\ UNCHANGED vertices

\* A statement or the COMMIT fails, or the process dies.  The loader issues no
\* ROLLBACK: recycling (RecyclingMethod::Clean) fails in the aborted transaction, and the
\* pool discards the connection and the transaction with it.
Abort(l) ==
    /\ Errors
    /\ Open(l)
    /\ task' = [task EXCEPT ![l] = Closed(l, "failed")]
    /\ UNCHANGED <<vertices, edges>>

-----------------------------------------------------------------------------
(* Specification *)

Init ==
    /\ vertices = {}
    /\ edges = {}
    /\ task = [l \in Loaders |-> Fresh("idle", 0, NoLoad)]

LoaderStep(l) ==
    \/ Begin(l) \/ CannotBegin(l)
    \/ MergeNode(l) \/ MergeEdge(l) \/ DropEdge(l)
    \/ Commit(l) \/ RejectEdge(l) \/ Abort(l)

Next == \E l \in Loaders : LoaderStep(l)

Spec == Init /\ [][Next]_vars

-----------------------------------------------------------------------------
(* Properties *)

By == [loader : Loaders, run : 1..MaxRuns]

Vertex == [label : Labels, id : Ids, attrs : SUBSET Attrs, by : By]

Edge == [label : Labels, from : Vertex, to : Vertex, key : Keys, by : By]

AllLoads == {NoLoad} \cup UNION {LoadsOf[l] : l \in Loaders}

Task == [pc : {"idle", "open", "done", "failed"},
         run : 0..MaxRuns,
         load : AllLoads,
         next : Nat \ {0},
         vs : SUBSET Vertex,
         es : SUBSET Edge,
         created : Nat,
         dropped : Nat]

\* The graph and the loaders' transactions have their types.
TypeOK ==
    /\ vertices \subseteq Vertex
    /\ edges \subseteq Edge
    /\ task \in [Loaders -> Task]
    /\ \A l \in Loaders :
          /\ task[l].next =< Len(task[l].load.items) + 1
          /\ task[l].pc = "idle" => task[l].load = NoLoad
          /\ task[l].pc # "idle" => task[l].run > 0 /\ task[l].load \in LoadsOf[l]
          /\ task[l].load.kind = "edges" => task[l].vs = {}

\* A resource is one vertex: however often and by however many loaders a node is
\* loaded, the committed graph has it once (MERGE in load_nodes).
OneVertexPerId ==
    \A v, w \in vertices : v.label = w.label /\ v.id = w.id => v = w

\* However often an edge is loaded, two vertices are joined by one edge of each label
\* and identifying key (MERGE in load_edges_with_props_identifying).
OneEdgePerKey ==
    \A x, y \in edges :
        x.label = y.label /\ x.from = y.from /\ x.to = y.to /\ x.key = y.key => x = y

WrittenBy(l) == {x \in vertices \cup edges : x.by = [loader |-> l, run |-> task[l].run]}

InGraph(load, i) ==
    IF load.kind = "nodes"
    THEN \E v \in vertices : /\ v.label = load.label /\ v.id = load.items[i].id
                             /\ load.items[i].attrs \subseteq v.attrs
    ELSE \E x \in edges : /\ x.label = load.label /\ x.key = load.items[i].key
                          /\ x.from.id = load.items[i].from /\ x.to.id = load.items[i].to

\* All the items are through, and those counted as created are in the graph, each under
\* its own properties or identifying key.
Whole(l) ==
    LET loaded == {i \in DOMAIN task[l].load.items : InGraph(task[l].load, i)}
    IN  /\ Cardinality(loaded) >= task[l].created
        /\ task[l].created + task[l].dropped = Len(task[l].load.items)

\* What a loader that returned Ok has reported as created is in the committed graph and
\* stays there; the other items it has reported as dropped.
OkMeansLoaded == \A l \in Loaders : task[l].pc = "done" => Whole(l)

\* All or nothing: an open load shows nothing, and one that returned Err has left
\* nothing or everything, unless strict mode rejected an edge.
AllOrNothing ==
    \A l \in Loaders :
        /\ Open(l) => WrittenBy(l) = {}
        /\ task[l].pc = "failed" /\ ~task[l].load.strict => WrittenBy(l) = {} \/ Whole(l)

=============================================================================
