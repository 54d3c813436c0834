-------------------------- MODULE GraphLoadProofs --------------------------
(***************************************************************************)
(* Proofs about GraphLoad: types, and what MERGE promises when no two      *)
(* loads of one node are open at one time and a node is always loaded with *)
(* the same properties; and what a load's answer says of the graph, which  *)
(* needs no such assumption.                                               *)
(***************************************************************************)
EXTENDS GraphLoad, FiniteSetTheorems, TLAPS

\* No load has no items.
LEMMA EmptyLoad ==
    /\ NoLoad \in AllLoads
    /\ NoLoad.items \in Seq(NodeItem)
    /\ Len(NoLoad.items) = 0
<1>1. NoLoad.items = <<>>
  BY DEF NoLoad
<1>2. <<>> \in Seq(NodeItem) /\ Len(<<>>) = 0
  OBVIOUS
<1>3. NoLoad \in AllLoads
  BY Zenon DEF AllLoads
<1> QED BY <1>1, <1>2, <1>3

\* An open load that is not through has a current item of its kind.
LEMMA ItemsAreTyped ==
    ASSUME NEW l \in Loaders, TypeOK, Open(l), More(l)
    PROVE  /\ task[l].load \in LoadsOf[l]
           /\ task[l].next \in DOMAIN task[l].load.items
           /\ task[l].run \in 1..MaxRuns
           /\ task[l].load.label \in Labels
           /\ task[l].load.kind = "nodes" => Item(l) \in NodeItem
           /\ task[l].load.kind = "edges" => Item(l) \in EdgeItem
<1>1. task[l].load \in LoadsOf[l] /\ task[l].run > 0 /\ task[l].run \in 0..MaxRuns
  BY DEF TypeOK, Open, Task
<1>2. task[l].load.items \in Seq(NodeItem) \/ task[l].load.items \in Seq(EdgeItem)
  BY <1>1, LoadsAssumption
<1>3. task[l].next \in 1..Len(task[l].load.items)
  BY <1>2 DEF TypeOK, More, Task
<1>4. task[l].next \in DOMAIN task[l].load.items
  BY <1>2, <1>3
<1> QED BY <1>1, <1>2, <1>3, <1>4, LoadsAssumption, EnvironmentAssumption DEF Item

\* What MERGE writes has the types of the graph.
LEMMA MergeIsTyped ==
    ASSUME TypeOK, NEW l \in Loaders, Open(l), More(l)
    PROVE  /\ task[l].load.kind = "nodes" => MergedVertices(l, Item(l)) \subseteq Vertex
           /\ task[l].load.kind = "edges" => MergedEdges(l, Item(l)) \subseteq Edge
<1>1. [loader |-> l, run |-> task[l].run] \in By
  BY ItemsAreTyped DEF By
<1>2. ASSUME task[l].load.kind = "nodes" PROVE MergedVertices(l, Item(l)) \subseteq Vertex
  <2>1. NewVertex(l, Item(l)) \in Vertex
    BY <1>1, <1>2, ItemsAreTyped DEF NewVertex, Vertex, NodeItem
  <2> QED BY <2>1 DEF MergedVertices
<1>3. ASSUME task[l].load.kind = "edges" PROVE MergedEdges(l, Item(l)) \subseteq Edge
  <2>1. VisibleVertices(l) \subseteq Vertex
    BY DEF TypeOK, VisibleVertices, Task
  <2>2. ASSUME NEW p \in Endpoints(l, Item(l))
        PROVE  NewEdge(l, Item(l), p[1], p[2]) \in Edge
    <3>1. p[1] \in Vertex /\ p[2] \in Vertex
      BY <2>1 DEF Endpoints
    <3> QED BY <1>1, <1>3, <3>1, ItemsAreTyped DEF NewEdge, Edge, EdgeItem
  <2> QED BY <2>2 DEF MergedEdges
<1> QED BY <1>2, <1>3

\* What a step does to the record of its loader.  One lemma for each kind of step, so that
\* the proofs below need not look into the records.
Counts(l) ==
    /\ task'[l].pc = task[l].pc /\ task'[l].run = task[l].run /\ task'[l].load = task[l].load
    /\ task'[l].next = task[l].next + 1

LEMMA AfterMergeNode ==
    ASSUME TypeOK, NEW l \in Loaders, MergeNode(l)
    PROVE  /\ Counts(l)
           /\ task'[l].vs = task[l].vs \cup MergedVertices(l, Item(l)) /\ task'[l].es = task[l].es
           /\ task'[l].created = task[l].created + 1 /\ task'[l].dropped = task[l].dropped
           /\ task'[l] \in Task
           /\ task' \in [Loaders -> Task] /\ \A k \in Loaders \ {l} : task'[k] = task[k]
<1> DEFINE vs == task[l].vs \cup MergedVertices(l, Item(l))
           n == task[l].next + 1
           c == task[l].created + 1
           t == [task[l] EXCEPT !.vs = vs, !.next = n, !.created = c]
<1>1. task' = [task EXCEPT ![l] = t]
  BY DEF MergeNode
<1>2. task[l] \in Task /\ task \in [Loaders -> Task]
  BY DEF TypeOK
<1>3. vs \subseteq Vertex
  BY <1>2, MergeIsTyped DEF MergeNode, Task
<1>4. n \in Nat \ {0} /\ c \in Nat
  BY <1>2 DEF Task
<1> HIDE DEF vs, n, c
<1>5. t \in Task
  BY <1>2, <1>3, <1>4 DEF Task
<1>6. /\ t.pc = task[l].pc /\ t.run = task[l].run /\ t.load = task[l].load /\ t.next = n
      /\ t.vs = vs /\ t.es = task[l].es /\ t.created = c /\ t.dropped = task[l].dropped
  BY <1>2 DEF Task
<1> HIDE DEF t
<1>7. task'[l] = t /\ task' \in [Loaders -> Task] /\ \A k \in Loaders \ {l} : task'[k] = task[k]
  BY <1>1, <1>2, <1>5
<1> QED BY <1>5, <1>6, <1>7 DEF vs, n, c, Counts

LEMMA AfterMergeEdge ==
    ASSUME TypeOK, NEW l \in Loaders, MergeEdge(l)
    PROVE  /\ Counts(l)
           /\ task'[l].es = task[l].es \cup MergedEdges(l, Item(l)) /\ task'[l].vs = task[l].vs
           /\ task'[l].created = task[l].created + 1 /\ task'[l].dropped = task[l].dropped
           /\ task'[l] \in Task
           /\ task' \in [Loaders -> Task] /\ \A k \in Loaders \ {l} : task'[k] = task[k]
<1> DEFINE es == task[l].es \cup MergedEdges(l, Item(l))
           n == task[l].next + 1
           c == task[l].created + 1
           t == [task[l] EXCEPT !.es = es, !.next = n, !.created = c]
<1>1. task' = [task EXCEPT ![l] = t]
  BY DEF MergeEdge
<1>2. task[l] \in Task /\ task \in [Loaders -> Task]
  BY DEF TypeOK
<1>3. es \subseteq Edge
  BY <1>2, MergeIsTyped DEF MergeEdge, Task
<1>4. n \in Nat \ {0} /\ c \in Nat
  BY <1>2 DEF Task
<1> HIDE DEF es, n, c
<1>5. t \in Task
  BY <1>2, <1>3, <1>4 DEF Task
<1>6. /\ t.pc = task[l].pc /\ t.run = task[l].run /\ t.load = task[l].load /\ t.next = n
      /\ t.es = es /\ t.vs = task[l].vs /\ t.created = c /\ t.dropped = task[l].dropped
  BY <1>2 DEF Task
<1> HIDE DEF t
<1>7. task'[l] = t /\ task' \in [Loaders -> Task] /\ \A k \in Loaders \ {l} : task'[k] = task[k]
  BY <1>1, <1>2, <1>5
<1> QED BY <1>5, <1>6, <1>7 DEF es, n, c, Counts

LEMMA AfterDropEdge ==
    ASSUME TypeOK, NEW l \in Loaders, DropEdge(l)
    PROVE  /\ Counts(l)
           /\ task'[l].vs = task[l].vs /\ task'[l].es = task[l].es
           /\ task'[l].created = task[l].created /\ task'[l].dropped = task[l].dropped + 1
           /\ task'[l] \in Task
           /\ task' \in [Loaders -> Task] /\ \A k \in Loaders \ {l} : task'[k] = task[k]
<1> DEFINE n == task[l].next + 1
           d == task[l].dropped + 1
           t == [task[l] EXCEPT !.next = n, !.dropped = d]
<1>1. task' = [task EXCEPT ![l] = t]
  BY DEF DropEdge
<1>2. task[l] \in Task /\ task \in [Loaders -> Task]
  BY DEF TypeOK
<1>3. n \in Nat \ {0} /\ d \in Nat
  BY <1>2 DEF Task
<1> HIDE DEF n, d
<1>4. t \in Task
  BY <1>2, <1>3 DEF Task
<1>5. /\ t.pc = task[l].pc /\ t.run = task[l].run /\ t.load = task[l].load /\ t.next = n
      /\ t.vs = task[l].vs /\ t.es = task[l].es /\ t.created = task[l].created /\ t.dropped = d
  BY <1>2 DEF Task
<1> HIDE DEF t
<1>6. task'[l] = t /\ task' \in [Loaders -> Task] /\ \A k \in Loaders \ {l} : task'[k] = task[k]
  BY <1>1, <1>2, <1>4
<1> QED BY <1>4, <1>5, <1>6 DEF n, d, Counts

\* Strict mode: an edges load has written no vertices.
LEMMA AfterRejectEdge ==
    ASSUME TypeOK, NEW l \in Loaders, RejectEdge(l)
    PROVE  /\ task'[l].pc = "failed" /\ task'[l].run = task[l].run
           /\ task'[l].load = task[l].load /\ task'[l].next = task[l].next
           /\ task'[l].vs = {} /\ task[l].vs = {} /\ task'[l].es = {}
           /\ task'[l] \in Task
           /\ task' \in [Loaders -> Task] /\ \A k \in Loaders \ {l} : task'[k] = task[k]
<1> DEFINE d == task[l].dropped + 1
           t == [task[l] EXCEPT !.pc = "failed", !.es = {}, !.dropped = d]
<1>1. task' = [task EXCEPT ![l] = t]
  BY DEF RejectEdge
<1>2. task[l] \in Task /\ task \in [Loaders -> Task] /\ task[l].vs = {}
  BY DEF TypeOK, RejectEdge
<1>3. d \in Nat
  BY <1>2 DEF Task
<1> HIDE DEF d
<1>4. t \in Task
  BY <1>2, <1>3 DEF Task
<1>5. /\ t.pc = "failed" /\ t.run = task[l].run /\ t.load = task[l].load
      /\ t.next = task[l].next /\ t.vs = task[l].vs /\ t.es = {}
  BY <1>2 DEF Task
<1> HIDE DEF t
<1>6. task'[l] = t /\ task' \in [Loaders -> Task] /\ \A k \in Loaders \ {l} : task'[k] = task[k]
  BY <1>1, <1>2, <1>4
<1> QED BY <1>2, <1>4, <1>5, <1>6

LEMMA AfterClosed ==
    ASSUME TypeOK, NEW l \in Loaders, NEW pc \in {"done", "failed"},
           task' = [task EXCEPT ![l] = Closed(l, pc)]
    PROVE  /\ task'[l].pc = pc /\ task'[l].run = task[l].run
           /\ task'[l].load = task[l].load /\ task'[l].next = task[l].next
           /\ task'[l].vs = {} /\ task'[l].es = {}
           /\ task'[l].created = task[l].created /\ task'[l].dropped = task[l].dropped
           /\ task'[l] \in Task
           /\ task' \in [Loaders -> Task] /\ \A k \in Loaders \ {l} : task'[k] = task[k]
<1> DEFINE t == Closed(l, pc)
<1>1. task[l] \in Task /\ task \in [Loaders -> Task]
  BY DEF TypeOK
<1>2. t \in Task
  BY <1>1 DEF Task, Closed
<1>3. /\ t.pc = pc /\ t.run = task[l].run /\ t.load = task[l].load
      /\ t.next = task[l].next /\ t.vs = {} /\ t.es = {}
      /\ t.created = task[l].created /\ t.dropped = task[l].dropped
  BY <1>1 DEF Task, Closed
<1> HIDE DEF t
<1>4. task'[l] = t /\ task' \in [Loaders -> Task] /\ \A k \in Loaders \ {l} : task'[k] = task[k]
  BY <1>1, <1>2 DEF t
<1> QED BY <1>2, <1>3, <1>4

LEMMA AfterFresh ==
    ASSUME TypeOK, NEW l \in Loaders, NEW load \in LoadsOf[l],
           NEW pc \in {"open", "done", "failed"},
           task[l].run < MaxRuns,
           task' = [task EXCEPT ![l] = Fresh(pc, task[l].run + 1, load)]
    PROVE  /\ task'[l].pc = pc /\ task'[l].run = task[l].run + 1
           /\ task'[l].load = load /\ task'[l].next = 1
           /\ task'[l].vs = {} /\ task'[l].es = {}
           /\ task'[l].created = 0 /\ task'[l].dropped = 0
           /\ task'[l] \in Task /\ task'[l].run > 0
           /\ task' \in [Loaders -> Task] /\ \A k \in Loaders \ {l} : task'[k] = task[k]
<1> DEFINE r == task[l].run + 1
           t == Fresh(pc, r, load)
<1>1. r \in 1..MaxRuns
  BY EnvironmentAssumption DEF TypeOK, Task
<1>2. load \in AllLoads
  BY DEF AllLoads
<1>3. task' = [task EXCEPT ![l] = t]
  OBVIOUS
<1> HIDE DEF r
<1>4. t \in Task
  BY <1>1, <1>2, EnvironmentAssumption DEF Task, Fresh
<1>5. /\ t.pc = pc /\ t.run = r /\ t.load = load /\ t.next = 1
      /\ t.vs = {} /\ t.es = {} /\ t.created = 0 /\ t.dropped = 0
  BY DEF Fresh
<1> HIDE DEF t
<1>6. task'[l] = t /\ task' \in [Loaders -> Task] /\ \A k \in Loaders \ {l} : task'[k] = task[k]
  BY <1>3, <1>4 DEF TypeOK
<1>7. r > 0
  BY <1>1
<1> QED BY <1>4, <1>5, <1>6, <1>7 DEF r

\* Types are kept when they are kept of the loader that moves.
LEMMA TypedAfter ==
    ASSUME TypeOK, NEW l \in Loaders,
           vertices' \subseteq Vertex, edges' \subseteq Edge, task' \in [Loaders -> Task],
           \A k \in Loaders \ {l} : task'[k] = task[k],
           task'[l].next =< Len(task'[l].load.items) + 1,
           task'[l].pc # "idle", task'[l].run > 0, task'[l].load \in LoadsOf[l],
           task'[l].load.kind = "edges" => task'[l].vs = {}
    PROVE  TypeOK'
BY DEF TypeOK

\* The graph and the loaders keep their types.
THEOREM TypeCorrect == Spec => []TypeOK
<1>1. Init => TypeOK
  <2> SUFFICES ASSUME Init PROVE TypeOK
    OBVIOUS
  <2> DEFINE t == Fresh("idle", 0, NoLoad)
  <2>1. t \in Task /\ t.pc = "idle" /\ t.load = NoLoad /\ t.next = 1 /\ t.vs = {}
    BY EnvironmentAssumption, EmptyLoad DEF Fresh, Task
  <2>2. Len(NoLoad.items) = 0
    BY EmptyLoad
  <2> QED BY <2>1, <2>2 DEF Init, TypeOK
<1>2. TypeOK /\ [Next]_vars => TypeOK'
  <2> SUFFICES ASSUME TypeOK, [Next]_vars PROVE TypeOK'
    OBVIOUS
  <2>1. CASE UNCHANGED vars
    BY <2>1 DEF vars, TypeOK, Task
  <2>2. ASSUME NEW l \in Loaders, LoaderStep(l) PROVE TypeOK'
    <3>1. /\ task[l] \in Task /\ Len(task[l].load.items) \in Nat
          /\ task[l].next =< Len(task[l].load.items) + 1
          /\ vertices \subseteq Vertex /\ edges \subseteq Edge
      <4>1. CASE task[l].pc = "idle"
        BY <4>1, EmptyLoad DEF TypeOK
      <4>2. CASE task[l].pc # "idle"
        BY <4>2, LoadsAssumption DEF TypeOK
      <4> QED BY <4>1, <4>2
    <3>2. CASE Begin(l) \/ CannotBegin(l)
      <4>1. PICK load \in LoadsOf[l] : \E pc \in {"open", "done", "failed"} :
              task' = [task EXCEPT ![l] = Fresh(pc, task[l].run + 1, load)]
        BY <3>2 DEF Begin, CannotBegin
      <4>2. Len(load.items) \in Nat
        BY LoadsAssumption
      <4>3. task[l].run < MaxRuns /\ UNCHANGED <<vertices, edges>>
        BY <3>2 DEF Begin, CannotBegin
      <4>4. /\ task'[l].next = 1 /\ task'[l].load = load /\ task'[l].run > 0
            /\ task'[l].pc # "idle" /\ task'[l].vs = {}
            /\ task' \in [Loaders -> Task] /\ \A k \in Loaders \ {l} : task'[k] = task[k]
        BY <4>1, <4>3, AfterFresh
      <4> QED BY <3>1, <4>2, <4>3, <4>4, TypedAfter
    <3>3. ASSUME Counts(l), Open(l), More(l), UNCHANGED <<vertices, edges>>,
                 task' \in [Loaders -> Task], \A k \in Loaders \ {l} : task'[k] = task[k],
                 task[l].load.kind = "edges" => task'[l].vs = {}
          PROVE  TypeOK'
      <4>1. task[l].run > 0 /\ task[l].load \in LoadsOf[l]
        BY <3>3 DEF TypeOK, Open
      <4>2. task[l].next + 1 =< Len(task[l].load.items) + 1
        BY <3>1, <3>3 DEF More, Task
      <4> QED BY <3>1, <3>3, <4>1, <4>2, TypedAfter DEF Counts, Open
    <3>4. CASE MergeNode(l)
      BY <3>3, <3>4, AfterMergeNode DEF MergeNode
    <3>5. CASE MergeEdge(l)
      <4>1. task[l].vs = {}
        BY <3>5 DEF MergeEdge, TypeOK
      <4> QED BY <3>3, <3>5, <4>1, AfterMergeEdge DEF MergeEdge
    <3>6. CASE DropEdge(l)
      <4>1. task[l].vs = {}
        BY <3>6 DEF DropEdge, TypeOK
      <4> QED BY <3>3, <3>6, <4>1, AfterDropEdge DEF DropEdge
    <3>7. task[l].vs \subseteq Vertex /\ task[l].es \subseteq Edge
      BY <3>1 DEF Task
    <3>8. CASE Commit(l) \/ Abort(l)
      <4>1. PICK pc \in {"done", "failed"} : task' = [task EXCEPT ![l] = Closed(l, pc)]
        BY <3>8 DEF Commit, Abort
      <4>2. vertices' \subseteq Vertex /\ edges' \subseteq Edge
        BY <3>1, <3>7, <3>8 DEF Commit, Abort
      <4>3. task[l].run > 0 /\ task[l].load \in LoadsOf[l]
        BY <3>8 DEF TypeOK, Open, Commit, Abort
      <4>4. /\ task'[l].next = task[l].next /\ task'[l].load = task[l].load
            /\ task'[l].run = task[l].run /\ task'[l].pc = pc /\ task'[l].vs = {}
            /\ task' \in [Loaders -> Task] /\ \A k \in Loaders \ {l} : task'[k] = task[k]
        BY <4>1, AfterClosed
      <4> QED BY <3>1, <4>2, <4>3, <4>4, TypedAfter
    <3>9. CASE RejectEdge(l)
      <4>1. vertices' \subseteq Vertex /\ edges' \subseteq Edge
        BY <3>1, <3>7, <3>9 DEF RejectEdge
      <4>2. task[l].run > 0 /\ task[l].load \in LoadsOf[l]
        BY <3>9 DEF TypeOK, Open, RejectEdge
      <4> QED BY <3>1, <3>9, <4>1, <4>2, AfterRejectEdge, TypedAfter
    <3> QED BY <2>2, <3>2, <3>4, <3>5, <3>6, <3>8, <3>9 DEF LoaderStep
  <2> QED BY <2>1, <2>2 DEF Next
<1> QED BY <1>1, <1>2, PTL DEF Spec

-----------------------------------------------------------------------------
(* One vertex per resource *)

IsNode(v, c, i) ==
    c.kind = "nodes" /\ v.label = c.label /\ v.id = c.items[i].id /\ v.attrs = c.items[i].attrs

Loads(l, v) == \E c \in LoadsOf[l] : \E i \in DOMAIN c.items : IsNode(v, c, i)

SameNode(v, w) == v.label = w.label /\ v.id = w.id

\* A node has the same properties in every load of it.
StableNodes ==
    \A k, l \in Loaders : \A v, w \in Vertex :
        Loads(k, v) /\ Loads(l, w) /\ SameNode(v, w) => v.attrs = w.attrs

\* No node is loaded by two loaders.
NodesApart ==
    \A k, l \in Loaders : \A v, w \in Vertex :
        Loads(k, v) /\ Loads(l, w) /\ SameNode(v, w) => k = l

\* What is committed or about to be is one vertex per node, each from a load; a loader's
\* writes agree with the committed graph because no other loader can commit the node now.
NodeInv ==
    /\ \A v \in vertices : \E l \in Loaders : Loads(l, v)
    /\ \A l \in Loaders : \A v \in task[l].vs : Loads(l, v)
    /\ \A l \in Loaders : Open(l) \/ task[l].vs = {}
    /\ Exclusive => \A k, l \in Loaders : Open(k) /\ Open(l) => k = l
    /\ OneVertexPerId
    /\ \A l \in Loaders : \A v \in task[l].vs : \A w \in VisibleVertices(l) :
          SameNode(v, w) => v = w

\* A step that neither writes a vertex nor opens a load.
LEMMA NodeFrame ==
    ASSUME TypeOK, NodeInv, vertices' = vertices,
           \A l \in Loaders :
              /\ task'[l].vs \in {{}, task[l].vs}
              /\ Open(l)' => Open(l)
              /\ Open(l) => Open(l)' \/ task'[l].vs = {}
    PROVE  NodeInv'
BY DEF NodeInv, OneVertexPerId, VisibleVertices

\* MERGE finds a node that is there, so the vertex it creates is new.
LEMMA MergedIsNew ==
    ASSUME TypeOK, NodeInv, StableNodes, NEW l \in Loaders, MergeNode(l),
           NEW v \in MergedVertices(l, Item(l))
    PROVE  /\ v \in Vertex
           /\ Loads(l, v)
           /\ \A w \in VisibleVertices(l) : ~SameNode(v, w)
<1>1. v \in Vertex
  BY MergeIsTyped DEF MergeNode
<1>2. /\ task[l].load \in LoadsOf[l] /\ task[l].next \in DOMAIN task[l].load.items
      /\ task[l].load.kind = "nodes"
  BY ItemsAreTyped DEF MergeNode
<1>3. /\ v = NewVertex(l, Item(l))
      /\ \A w \in VisibleVertices(l) : ~Matches(w, task[l].load.label, Item(l))
  BY DEF MergedVertices
<1>4. v.label = task[l].load.label /\ v.id = Item(l).id /\ v.attrs = Item(l).attrs
  BY <1>3 DEF NewVertex
<1>5. Loads(l, v)
  BY <1>2, <1>4 DEF Loads, IsNode, Item
<1>6. ASSUME NEW w \in VisibleVertices(l), SameNode(v, w) PROVE FALSE
  <2>1. w \in Vertex /\ \E k \in Loaders : Loads(k, w)
    BY DEF VisibleVertices, NodeInv, TypeOK, Task
  <2>2. w.attrs = v.attrs
    BY <1>1, <1>5, <1>6, <2>1 DEF StableNodes, SameNode
  <2>3. Matches(w, task[l].load.label, Item(l))
    BY <1>4, <1>6, <2>2 DEF Matches, SameNode
  <2> QED BY <1>3, <2>3
<1> QED BY <1>1, <1>5, <1>6

\* Every step of a loader keeps NodeInv.
LEMMA NodeStep ==
    ASSUME TypeOK, NodeInv, StableNodes, Exclusive \/ NodesApart,
           NEW l \in Loaders, LoaderStep(l)
    PROVE  NodeInv'
<1>1. CASE Begin(l)
  <2>1. PICK load \in LoadsOf[l] :
          task' = [task EXCEPT ![l] = Fresh(IF load.items = <<>> THEN "done" ELSE "open",
                                            task[l].run + 1, load)]
    BY <1>1 DEF Begin
  <2>2. task'[l].vs = {} /\ \A k \in Loaders \ {l} : task'[k] = task[k]
    BY <2>1 DEF Fresh, TypeOK
  <2>3. vertices' = vertices /\ (Exclusive => \A k \in Loaders : ~Open(k))
    BY <1>1 DEF Begin
  <2>4. Exclusive => \A j, k \in Loaders : Open(j)' /\ Open(k)' => j = k
    BY <2>2, <2>3 DEF Open
  <2> QED BY <2>2, <2>3, <2>4 DEF NodeInv, OneVertexPerId, VisibleVertices, Open
<1>2. CASE CannotBegin(l)
  <2>1. PICK load \in LoadsOf[l] :
          task' = [task EXCEPT ![l] = Fresh("failed", task[l].run + 1, load)]
    BY <1>2 DEF CannotBegin
  <2>2. /\ task'[l].vs = {} /\ task'[l].pc = "failed"
        /\ \A k \in Loaders \ {l} : task'[k] = task[k]
    BY <2>1 DEF Fresh, TypeOK
  <2> QED BY <1>2, <2>2, NodeFrame DEF CannotBegin, Open
<1>3. CASE MergeNode(l)
  <2>1. /\ vertices' = vertices
        /\ task'[l].vs = task[l].vs \cup MergedVertices(l, Item(l))
        /\ task'[l].pc = task[l].pc
        /\ \A k \in Loaders \ {l} : task'[k] = task[k]
    BY <1>3, AfterMergeNode DEF MergeNode, Counts
  <2>2. \A v \in MergedVertices(l, Item(l)) :
            Loads(l, v) /\ \A w \in VisibleVertices(l) : ~SameNode(v, w)
    BY <1>3, MergedIsNew
  <2>3. \A v, w \in MergedVertices(l, Item(l)) : v = w
    BY DEF MergedVertices
  <2>4. \A v \in task'[l].vs : \A w \in vertices \cup task'[l].vs : SameNode(v, w) => v = w
    BY <2>1, <2>2, <2>3 DEF NodeInv, VisibleVertices, SameNode
  <2>5. Open(l)
    BY <1>3 DEF MergeNode
  <2> QED BY <2>1, <2>2, <2>4, <2>5 DEF NodeInv, OneVertexPerId, VisibleVertices, Open
<1>4. CASE MergeEdge(l)
  BY <1>4, AfterMergeEdge, NodeFrame DEF MergeEdge, Open, Counts
<1>5. CASE DropEdge(l)
  BY <1>5, AfterDropEdge, NodeFrame DEF DropEdge, Open, Counts
<1>6. CASE Commit(l)
  <2>1. /\ vertices' = vertices \cup task[l].vs
        /\ task'[l].vs = {} /\ task'[l].pc # "open"
        /\ \A k \in Loaders \ {l} : task'[k] = task[k]
        /\ Open(l)
    BY <1>6, AfterClosed DEF Commit
  <2>2. ASSUME NEW k \in Loaders \ {l}, NEW v \in task[k].vs, NEW w \in task[l].vs
        PROVE  ~SameNode(v, w)
    <3>1. Open(k) /\ Loads(k, v) /\ Loads(l, w)
      BY DEF NodeInv
    <3>2. CASE Exclusive
      BY <2>1, <3>1, <3>2 DEF NodeInv
    <3>3. CASE NodesApart
      BY <3>1, <3>3 DEF NodesApart, TypeOK, Task
    <3> QED BY <3>2, <3>3
  <2>3. OneVertexPerId'
    BY <2>1 DEF NodeInv, OneVertexPerId, VisibleVertices, SameNode
  <2> QED BY <2>1, <2>2, <2>3 DEF NodeInv, VisibleVertices, Open
<1>7. CASE RejectEdge(l)
  BY <1>7, AfterRejectEdge, NodeFrame DEF RejectEdge, Open
<1>8. CASE Abort(l)
  BY <1>8, AfterClosed, NodeFrame DEF Abort, Open
<1> QED BY <1>1, <1>2, <1>3, <1>4, <1>5, <1>6, <1>7, <1>8 DEF LoaderStep

\* If nodes keep their properties, and each is loaded by one loader or one load is over
\* before another begins, then no resource ever has two vertices, whatever fails.
THEOREM OneVertexAlways ==
    ASSUME StableNodes, Exclusive \/ NodesApart
    PROVE  Spec => []OneVertexPerId
<1>1. Init => NodeInv
  BY DEF Init, NodeInv, OneVertexPerId, VisibleVertices, Open, Fresh
<1>2. TypeOK /\ NodeInv /\ [Next]_vars => NodeInv'
  <2> SUFFICES ASSUME TypeOK, NodeInv, [Next]_vars PROVE NodeInv'
    OBVIOUS
  <2>1. CASE UNCHANGED vars
    BY <2>1, NodeFrame DEF vars, Open
  <2>2. CASE Next
    BY <2>2, NodeStep DEF Next
  <2> QED BY <2>1, <2>2
<1>3. NodeInv => OneVertexPerId
  BY DEF NodeInv
<1> QED BY <1>1, <1>2, <1>3, TypeCorrect, PTL DEF Spec

-----------------------------------------------------------------------------
(* One edge per identifying key *)

LoadsEdge(l, x) ==
    \E c \in LoadsOf[l] : \E i \in DOMAIN c.items :
        /\ c.kind = "edges" /\ x.label = c.label /\ x.key = c.items[i].key
        /\ x.from.id = c.items[i].from /\ x.to.id = c.items[i].to

SameEdge(x, y) == x.label = y.label /\ x.from = y.from /\ x.to = y.to /\ x.key = y.key

\* No edge is loaded by two loaders.
EdgesApart ==
    \A k, l \in Loaders : \A x, y \in Edge :
        LoadsEdge(k, x) /\ LoadsEdge(l, y) /\ SameEdge(x, y) => k = l

\* As NodeInv, of the edges; which vertices an edge joins plays no part.
EdgeInv ==
    /\ \A l \in Loaders : \A x \in task[l].es : LoadsEdge(l, x)
    /\ \A l \in Loaders : Open(l) \/ task[l].es = {}
    /\ Exclusive => \A k, l \in Loaders : Open(k) /\ Open(l) => k = l
    /\ OneEdgePerKey
    /\ \A l \in Loaders : \A x \in task[l].es : \A y \in VisibleEdges(l) :
          SameEdge(x, y) => x = y

\* A step that neither writes an edge nor opens a load.
LEMMA EdgeFrame ==
    ASSUME TypeOK, EdgeInv, edges' = edges,
           \A l \in Loaders :
              /\ task'[l].es \in {{}, task[l].es}
              /\ Open(l)' => Open(l)
              /\ Open(l) => Open(l)' \/ task'[l].es = {}
    PROVE  EdgeInv'
BY DEF EdgeInv, OneEdgePerKey, VisibleEdges

\* MERGE finds an edge that is there, so those it creates are new and differ in endpoints.
LEMMA MergedEdgesAreNew ==
    ASSUME TypeOK, NEW l \in Loaders, MergeEdge(l), NEW x \in MergedEdges(l, Item(l))
    PROVE  /\ LoadsEdge(l, x)
           /\ \A y \in VisibleEdges(l) : ~SameEdge(x, y)
           /\ \A y \in MergedEdges(l, Item(l)) : SameEdge(x, y) => x = y
<1>1. /\ task[l].load \in LoadsOf[l] /\ task[l].next \in DOMAIN task[l].load.items
      /\ task[l].load.kind = "edges"
  BY ItemsAreTyped DEF MergeEdge
<1>2. PICK p \in Endpoints(l, Item(l)) :
          /\ x = NewEdge(l, Item(l), p[1], p[2])
          /\ ~ \E y \in VisibleEdges(l) :
                  MatchesEdge(y, task[l].load.label, Item(l), p[1], p[2])
  BY DEF MergedEdges
<1>3. /\ x.label = task[l].load.label /\ x.key = Item(l).key
      /\ x.from = p[1] /\ x.to = p[2] /\ p[1].id = Item(l).from /\ p[2].id = Item(l).to
  BY <1>2 DEF NewEdge, Endpoints
<1>4. LoadsEdge(l, x)
  BY <1>1, <1>3 DEF LoadsEdge, Item
<1>5. \A y \in VisibleEdges(l) : ~SameEdge(x, y)
  BY <1>2, <1>3 DEF SameEdge, MatchesEdge
<1>6. ASSUME NEW y \in MergedEdges(l, Item(l)), SameEdge(x, y) PROVE x = y
  <2>1. PICK q \in Endpoints(l, Item(l)) : y = NewEdge(l, Item(l), q[1], q[2])
    BY DEF MergedEdges
  <2>2. q[1] = p[1] /\ q[2] = p[2]
    BY <1>3, <1>6, <2>1 DEF NewEdge, SameEdge
  <2> QED BY <1>2, <2>1, <2>2
<1> QED BY <1>4, <1>5, <1>6

\* What a loader has merged joins the graph without a second edge of one key.
LEMMA PublishedEdges ==
    ASSUME TypeOK, EdgeInv, Exclusive \/ EdgesApart,
           NEW l \in Loaders, Open(l),
           edges' = edges \cup task[l].es,
           task'[l].es = {}, task'[l].pc # "open",
           \A k \in Loaders \ {l} : task'[k] = task[k]
    PROVE  EdgeInv'
<1>1. ASSUME NEW k \in Loaders \ {l}, NEW x \in task[k].es, NEW y \in task[l].es
      PROVE  ~SameEdge(x, y)
  <2>1. Open(k) /\ LoadsEdge(k, x) /\ LoadsEdge(l, y)
    BY DEF EdgeInv
  <2>2. CASE Exclusive
    BY <2>1, <2>2 DEF EdgeInv
  <2>3. CASE EdgesApart
    BY <2>1, <2>3 DEF EdgesApart, TypeOK, Task
  <2> QED BY <2>2, <2>3
<1>2. OneEdgePerKey'
  BY DEF EdgeInv, OneEdgePerKey, VisibleEdges, SameEdge
<1> QED BY <1>1, <1>2 DEF EdgeInv, VisibleEdges, Open

\* Every step of a loader keeps EdgeInv.
LEMMA EdgeStep ==
    ASSUME TypeOK, EdgeInv, Exclusive \/ EdgesApart, NEW l \in Loaders, LoaderStep(l)
    PROVE  EdgeInv'
<1>1. CASE Begin(l)
  <2>1. PICK load \in LoadsOf[l] :
          task' = [task EXCEPT ![l] = Fresh(IF load.items = <<>> THEN "done" ELSE "open",
                                            task[l].run + 1, load)]
    BY <1>1 DEF Begin
  <2>2. task'[l].es = {} /\ \A k \in Loaders \ {l} : task'[k] = task[k]
    BY <2>1 DEF Fresh, TypeOK
  <2>3. edges' = edges /\ (Exclusive => \A k \in Loaders : ~Open(k))
    BY <1>1 DEF Begin
  <2>4. Exclusive => \A j, k \in Loaders : Open(j)' /\ Open(k)' => j = k
    BY <2>2, <2>3 DEF Open
  <2> QED BY <2>2, <2>3, <2>4 DEF EdgeInv, OneEdgePerKey, VisibleEdges, Open
<1>2. CASE CannotBegin(l)
  <2>1. PICK load \in LoadsOf[l] :
          task' = [task EXCEPT ![l] = Fresh("failed", task[l].run + 1, load)]
    BY <1>2 DEF CannotBegin
  <2>2. /\ task'[l].es = {} /\ task'[l].pc = "failed"
        /\ \A k \in Loaders \ {l} : task'[k] = task[k]
    BY <2>1 DEF Fresh, TypeOK
  <2> QED BY <1>2, <2>2, EdgeFrame DEF CannotBegin, Open
<1>3. CASE MergeNode(l)
  BY <1>3, AfterMergeNode, EdgeFrame DEF MergeNode, Open, Counts
<1>4. CASE MergeEdge(l)
  <2>1. /\ edges' = edges
        /\ task'[l].es = task[l].es \cup MergedEdges(l, Item(l))
        /\ task'[l].pc = task[l].pc
        /\ \A k \in Loaders \ {l} : task'[k] = task[k]
    BY <1>4, AfterMergeEdge DEF MergeEdge, Counts
  <2>2. \A x \in MergedEdges(l, Item(l)) :
            /\ LoadsEdge(l, x)
            /\ \A y \in VisibleEdges(l) : ~SameEdge(x, y)
            /\ \A y \in MergedEdges(l, Item(l)) : SameEdge(x, y) => x = y
    BY <1>4, MergedEdgesAreNew
  <2>3. \A x \in task'[l].es : \A y \in edges \cup task'[l].es : SameEdge(x, y) => x = y
    BY <2>1, <2>2 DEF EdgeInv, VisibleEdges, SameEdge
  <2>4. Open(l)
    BY <1>4 DEF MergeEdge
  <2> QED BY <2>1, <2>2, <2>3, <2>4 DEF EdgeInv, OneEdgePerKey, VisibleEdges, Open
<1>5. CASE DropEdge(l)
  BY <1>5, AfterDropEdge, EdgeFrame DEF DropEdge, Open, Counts
<1>6. CASE Commit(l)
  BY <1>6, AfterClosed, PublishedEdges DEF Commit
<1>7. CASE RejectEdge(l)
  BY <1>7, AfterRejectEdge, PublishedEdges DEF RejectEdge
<1>8. CASE Abort(l)
  BY <1>8, AfterClosed, EdgeFrame DEF Abort, Open
<1> QED BY <1>1, <1>2, <1>3, <1>4, <1>5, <1>6, <1>7, <1>8 DEF LoaderStep

\* If each edge is loaded by one loader, or one load is over before another begins, then
\* two vertices are never joined twice under one label and key, whatever fails.
THEOREM OneEdgeAlways ==
    ASSUME Exclusive \/ EdgesApart
    PROVE  Spec => []OneEdgePerKey
<1>1. Init => EdgeInv
  BY DEF Init, EdgeInv, OneEdgePerKey, VisibleEdges, Open, Fresh
<1>2. TypeOK /\ EdgeInv /\ [Next]_vars => EdgeInv'
  <2> SUFFICES ASSUME TypeOK, EdgeInv, [Next]_vars PROVE EdgeInv'
    OBVIOUS
  <2>1. CASE UNCHANGED vars
    BY <2>1, EdgeFrame DEF vars, Open
  <2>2. CASE Next
    BY <2>2, EdgeStep DEF Next
  <2> QED BY <2>1, <2>2
<1>3. EdgeInv => OneEdgePerKey
  BY DEF EdgeInv
<1> QED BY <1>1, <1>2, <1>3, TypeCorrect, PTL DEF Spec

-----------------------------------------------------------------------------
(* What an answer says of the graph *)

\* Is item i of a load among these vertices and edges?
Seen(load, i, vs, es) ==
    IF load.kind = "nodes"
    THEN \E v \in vs : /\ v.label = load.label /\ v.id = load.items[i].id
                       /\ load.items[i].attrs \subseteq v.attrs
    ELSE \E x \in es : /\ x.label = load.label /\ x.key = load.items[i].key
                       /\ x.from.id = load.items[i].from /\ x.to.id = load.items[i].to

\* As many of the first n items as were counted as created are among vs and es; the others
\* were counted as dropped.
Counted(t, n, vs, es) ==
    /\ \E S \in SUBSET (1..n) : /\ Cardinality(S) = t.created
                                /\ \A i \in S : Seen(t.load, i, vs, es)
    /\ t.created + t.dropped = n

Finished(l) == Counted(task[l], Len(task[l].load.items), vertices, edges)

Stamp(l) == [loader |-> l, run |-> task[l].run]

\* An open load has counted what it sees, published nothing, and stamps all it writes.
LoadOK(l) ==
    /\ \A x \in task[l].vs \cup task[l].es : x.by = Stamp(l)
    /\ Open(l) \/ (task[l].vs = {} /\ task[l].es = {})
    /\ Open(l) => /\ WrittenBy(l) = {}
                  /\ Counted(task[l], task[l].next - 1, VisibleVertices(l), VisibleEdges(l))
    /\ task[l].pc = "done" => Finished(l)
    /\ task[l].pc = "failed" /\ ~task[l].load.strict => WrittenBy(l) = {} \/ Finished(l)

\* Nothing in the graph is from a load that is yet to come.
Stamped == \A x \in vertices \cup edges : \A l \in Loaders :
               x.by.loader = l => x.by.run =< task[l].run

LoadInv == Stamped /\ \A l \in Loaders : LoadOK(l)

\* What is counted stays so while the graph grows.
LEMMA CountedStays ==
    ASSUME NEW t, NEW n, NEW vs, NEW es, NEW ws, NEW fs,
           Counted(t, n, vs, es), vs \subseteq ws, es \subseteq fs
    PROVE  Counted(t, n, ws, fs)
<1>1. \A i : Seen(t.load, i, vs, es) => Seen(t.load, i, ws, fs)
  BY DEF Seen
<1> QED BY <1>1 DEF Counted

\* Counts are finite, and finished loads are whole.
LEMMA FinishedIsWhole ==
    ASSUME TypeOK, NEW l \in Loaders, Finished(l), Len(task[l].load.items) \in Nat,
           DOMAIN task[l].load.items = 1..Len(task[l].load.items)
    PROVE  Whole(l)
<1> DEFINE n == Len(task[l].load.items)
           loaded == {i \in DOMAIN task[l].load.items : InGraph(task[l].load, i)}
<1>1. PICK S \in SUBSET (1..n) : /\ Cardinality(S) = task[l].created
                                 /\ \A i \in S : Seen(task[l].load, i, vertices, edges)
  BY DEF Finished, Counted
<1>2. S \subseteq loaded /\ loaded \subseteq 1..n
  BY <1>1 DEF Seen, InGraph
<1>3. IsFiniteSet(1..n)
  BY FS_Interval
<1>4. IsFiniteSet(loaded)
  BY <1>2, <1>3, FS_Subset
<1>5. Cardinality(S) =< Cardinality(loaded) /\ Cardinality(loaded) \in Nat
  BY <1>2, <1>4, FS_Subset, FS_CardinalityType
<1>6. task[l].created + task[l].dropped = n
  BY DEF Finished, Counted
<1>7. task[l].created \in Nat
  BY DEF TypeOK, Task
<1>8. Cardinality(loaded) >= task[l].created
  BY <1>1, <1>5, <1>7
<1> QED BY <1>6, <1>8 DEF Whole

\* The items of a load, of whichever kind, are a sequence.
LEMMA ItemsAreSequences ==
    ASSUME TypeOK, NEW l \in Loaders
    PROVE  /\ Len(task[l].load.items) \in Nat
           /\ DOMAIN task[l].load.items = 1..Len(task[l].load.items)
<1>1. CASE task[l].pc = "idle"
  BY <1>1, EmptyLoad DEF TypeOK
<1>2. CASE task[l].pc # "idle"
  BY <1>2, LoadsAssumption DEF TypeOK
<1> QED BY <1>1, <1>2

\* What a step of l does to the graph and to the other loaders.
StepOf(l) ==
    /\ vertices \subseteq vertices' /\ edges \subseteq edges'
    /\ \A x \in vertices' \cup edges' : x \in vertices \cup edges \/ x.by = Stamp(l)
    /\ \A k \in Loaders \ {l} : task'[k] = task[k]
    /\ task'[l].run \in Nat /\ task[l].run =< task'[l].run

\* A step publishes nothing but what its loader has written.
LEMMA StepsWriteTheirOwn ==
    ASSUME TypeOK, LoadInv, NEW l \in Loaders, LoaderStep(l)
    PROVE  StepOf(l)
<1>0. task[l] \in Task /\ task[l].run \in Nat
  BY EnvironmentAssumption DEF TypeOK, Task
<1>1. CASE Begin(l)
  <2>1. PICK load \in LoadsOf[l] :
          task' = [task EXCEPT ![l] = Fresh(IF load.items = <<>> THEN "done" ELSE "open",
                                            task[l].run + 1, load)]
    BY <1>1 DEF Begin
  <2>2. task'[l].run = task[l].run + 1 /\ \A k \in Loaders \ {l} : task'[k] = task[k]
    BY <2>1 DEF Fresh, TypeOK
  <2> QED BY <1>0, <1>1, <2>2 DEF Begin, StepOf
<1>2. CASE CannotBegin(l)
  <2>1. PICK load \in LoadsOf[l] :
          task' = [task EXCEPT ![l] = Fresh("failed", task[l].run + 1, load)]
    BY <1>2 DEF CannotBegin
  <2>2. task'[l].run = task[l].run + 1 /\ \A k \in Loaders \ {l} : task'[k] = task[k]
    BY <2>1 DEF Fresh, TypeOK
  <2> QED BY <1>0, <1>2, <2>2 DEF CannotBegin, StepOf
<1>a. ASSUME task'[l].run = task[l].run, \A k \in Loaders \ {l} : task'[k] = task[k],
             vertices' \in {vertices, vertices \cup task[l].vs},
             edges' \in {edges, edges \cup task[l].es}
      PROVE  StepOf(l)
  <2>1. \A x \in task[l].vs \cup task[l].es : x.by = Stamp(l)
    BY DEF LoadInv, LoadOK
  <2> QED BY <1>0, <1>a, <2>1 DEF StepOf
<1>3. CASE MergeNode(l)
  BY <1>3, <1>a, AfterMergeNode DEF MergeNode, Counts
<1>4. CASE MergeEdge(l)
  BY <1>4, <1>a, AfterMergeEdge DEF MergeEdge, Counts
<1>5. CASE DropEdge(l)
  BY <1>5, <1>a, AfterDropEdge DEF DropEdge, Counts
<1>6. CASE Commit(l)
  BY <1>6, <1>a, AfterClosed DEF Commit
<1>7. CASE RejectEdge(l)
  BY <1>7, <1>a, AfterRejectEdge DEF RejectEdge
<1>8. CASE Abort(l)
  BY <1>8, <1>a, AfterClosed DEF Abort
<1> QED BY <1>1, <1>2, <1>3, <1>4, <1>5, <1>6, <1>7, <1>8 DEF LoaderStep

\* So the other loaders are not concerned.
LEMMA OthersKeep ==
    ASSUME TypeOK, LoadInv, NEW l \in Loaders, StepOf(l), NEW k \in Loaders \ {l}
    PROVE  LoadOK(k)'
<1>1. task'[k] = task[k] /\ LoadOK(k)
  BY DEF StepOf, LoadInv
<1>2. WrittenBy(k)' = WrittenBy(k)
  BY <1>1 DEF WrittenBy, StepOf, Stamp
<1>3. vertices \subseteq vertices' /\ edges \subseteq edges'
  BY DEF StepOf
<1>4. VisibleVertices(k) \subseteq VisibleVertices(k)' /\ VisibleEdges(k) \subseteq VisibleEdges(k)'
  BY <1>1, <1>3 DEF VisibleVertices, VisibleEdges
<1>5. Finished(k) => Finished(k)'
  BY <1>1, <1>3, CountedStays DEF Finished
<1>6. Open(k) => Counted(task[k], task[k].next - 1, VisibleVertices(k)', VisibleEdges(k)')
  BY <1>1, <1>4, CountedStays DEF LoadOK
<1> QED BY <1>1, <1>2, <1>5, <1>6 DEF LoadOK, Open, Stamp

\* Every run number in the state is a number, a loader's and a stamp's.
LEMMA RunsAreNumbers ==
    ASSUME TypeOK
    PROVE  /\ \A k \in Loaders : task[k].run \in Nat
           /\ \A x \in vertices \cup edges : x.by.run \in Nat
<1>1. \A k \in Loaders : task[k].run \in Nat
  <2>1. \A k \in Loaders : task[k] \in Task
    BY DEF TypeOK
  <2>2. \A t \in Task : t.run \in Nat
    BY DEF Task
  <2> QED BY <2>1, <2>2
<1>2. \A b \in By : b.run \in Nat
  BY DEF By
<1>3. \A x \in Vertex : x.by \in By
  BY DEF Vertex
<1>4. \A x \in Edge : x.by \in By
  BY DEF Edge
<1> QED BY <1>1, <1>2, <1>3, <1>4 DEF TypeOK

\* Nor are the stamps.
LEMMA StampsStay ==
    ASSUME TypeOK, LoadInv, NEW l \in Loaders, StepOf(l)
    PROVE  Stamped'
<1>1. ASSUME NEW k \in Loaders
      PROVE  task[k].run \in Nat /\ task'[k].run \in Nat /\ task[k].run =< task'[k].run
  <2>1. task[k].run \in Nat
    BY RunsAreNumbers
  <2>2. CASE k = l
    BY <2>1, <2>2 DEF StepOf
  <2>3. CASE k # l
    BY <2>1, <2>3 DEF StepOf
  <2> QED BY <2>2, <2>3
<1>2. \A x \in vertices \cup edges : x.by.run \in Nat
  BY RunsAreNumbers
<1> SUFFICES ASSUME NEW x \in vertices' \cup edges', NEW k \in Loaders, x.by.loader = k
             PROVE  x.by.run =< task'[k].run
  BY DEF Stamped
<1>3. CASE x \in vertices \cup edges
  BY <1>1, <1>2, <1>3 DEF LoadInv, Stamped
<1>4. CASE x.by = Stamp(l)
  BY <1>1, <1>4 DEF Stamp
<1> QED BY <1>3, <1>4 DEF StepOf

\* A load that begins, or fails to, has written nothing.
LEMMA FreshIsOK ==
    ASSUME TypeOK, LoadInv, NEW l \in Loaders, NEW load \in LoadsOf[l],
           NEW pc \in {"open", "done", "failed"}, pc = "done" => load.items = <<>>,
           task' = [task EXCEPT ![l] = Fresh(pc, task[l].run + 1, load)],
           UNCHANGED <<vertices, edges>>
    PROVE  LoadOK(l)'
<1> DEFINE t == Fresh(pc, task[l].run + 1, load)
<1>1. task'[l] = t
  BY DEF TypeOK
<1>2. /\ t.pc = pc /\ t.load = load /\ t.run = task[l].run + 1 /\ t.next = 1
      /\ t.vs = {} /\ t.es = {} /\ t.created = 0 /\ t.dropped = 0
  BY DEF Fresh
<1> HIDE DEF t
<1>3. task[l].run \in Nat /\ \A x \in vertices \cup edges : x.by.run \in Nat
  BY RunsAreNumbers
<1>4. ASSUME NEW x \in vertices \cup edges PROVE x.by # [loader |-> l, run |-> task[l].run + 1]
  BY <1>3 DEF LoadInv, Stamped
<1>5. WrittenBy(l)' = {}
  BY <1>1, <1>2, <1>4 DEF WrittenBy
<1>6. ASSUME NEW vs, NEW es PROVE Counted(t, 0, vs, es)
  <2>1. {} \in SUBSET (1..0) /\ Cardinality({}) = 0
    BY FS_EmptySet
  <2> QED BY <1>2, <2>1 DEF Counted
<1>7. pc = "done" => Finished(l)'
  <2>1. load.items = <<>> => Len(load.items) = 0
    OBVIOUS
  <2> QED BY <1>1, <1>2, <1>6, <2>1 DEF Finished
<1>8. pc = "open" => Counted(t, t.next - 1, VisibleVertices(l)', VisibleEdges(l)')
  BY <1>2, <1>6
<1> QED BY <1>1, <1>2, <1>5, <1>7, <1>8 DEF LoadOK, Open

\* An item that is through is counted: as created if it is now seen, else as dropped.
LEMMA OneMoreCounted ==
    ASSUME TypeOK, LoadInv, NEW l \in Loaders, Open(l), More(l), NEW vs, NEW es, NEW t,
           VisibleVertices(l) \subseteq vs, VisibleEdges(l) \subseteq es,
           t.load = task[l].load,
           \/ /\ t.created = task[l].created + 1 /\ t.dropped = task[l].dropped
              /\ Seen(task[l].load, task[l].next, vs, es)
           \/ t.created = task[l].created /\ t.dropped = task[l].dropped + 1
    PROVE  Counted(t, task[l].next, vs, es)
<1> DEFINE n == task[l].next
<1>1. n \in Nat \ {0} /\ task[l].created \in Nat /\ task[l].dropped \in Nat
  BY DEF TypeOK, Task
<1>2. Counted(task[l], n - 1, vs, es)
  BY CountedStays DEF LoadInv, LoadOK
<1>3. PICK S \in SUBSET (1..n - 1) : /\ Cardinality(S) = task[l].created
                                     /\ \A i \in S : Seen(task[l].load, i, vs, es)
  BY <1>2 DEF Counted
<1>4. task[l].created + task[l].dropped = n - 1
  BY <1>2 DEF Counted
<1>5. S \subseteq 1..n /\ n \notin S /\ S \cup {n} \subseteq 1..n
  <2>1. \A i \in S : i \in Int /\ 1 =< i /\ i =< n - 1
    BY <1>3
  <2>2. \A i \in S : i \in 1..n /\ i # n
    BY <1>1, <2>1
  <2>3. n \in 1..n
    BY <1>1
  <2> HIDE DEF n
  <2> QED BY <2>2, <2>3
<1>6. IsFiniteSet(1..n - 1)
  <2>1. 1 \in Int /\ n - 1 \in Int
    BY <1>1
  <2> HIDE DEF n
  <2> QED BY <2>1, FS_Interval
<1>7. IsFiniteSet(S)
  BY <1>3, <1>6, FS_Subset
<1>8. Cardinality(S \cup {n}) = Cardinality(S) + 1
  BY <1>5, <1>7, FS_AddElement
<1>9. t.created + t.dropped = n
  BY <1>1, <1>4
<1>10. CASE t.created = task[l].created + 1 /\ Seen(task[l].load, n, vs, es)
  <2>1. S \cup {n} \in SUBSET (1..n) /\ Cardinality(S \cup {n}) = t.created
    BY <1>3, <1>5, <1>8, <1>10
  <2>2. \A i \in S \cup {n} : Seen(t.load, i, vs, es)
    BY <1>3, <1>10
  <2> QED BY <1>9, <2>1, <2>2 DEF Counted
<1>11. CASE t.created = task[l].created
  <2>1. S \in SUBSET (1..n) /\ Cardinality(S) = t.created
    BY <1>3, <1>5, <1>11
  <2>2. \A i \in S : Seen(t.load, i, vs, es)
    BY <1>3
  <2> QED BY <1>9, <2>1, <2>2 DEF Counted
<1> QED BY <1>10, <1>11

\* Every step of a loader keeps its own account.
LEMMA LoadStep ==
    ASSUME TypeOK, LoadInv, NEW l \in Loaders, LoaderStep(l)
    PROVE  LoadOK(l)'
<1>0. task[l] \in Task /\ LoadOK(l) /\ task \in [Loaders -> Task]
  BY DEF TypeOK, LoadInv
<1>1. CASE Begin(l)
  <2>1. PICK load \in LoadsOf[l] :
          task' = [task EXCEPT ![l] = Fresh(IF load.items = <<>> THEN "done" ELSE "open",
                                            task[l].run + 1, load)]
    BY <1>1 DEF Begin
  <2> QED BY <1>1, <2>1, FreshIsOK DEF Begin
<1>2. CASE CannotBegin(l)
  <2>1. PICK load \in LoadsOf[l] :
          task' = [task EXCEPT ![l] = Fresh("failed", task[l].run + 1, load)]
    BY <1>2 DEF CannotBegin
  <2> QED BY <1>2, <2>1, FreshIsOK DEF CannotBegin
<1>3. CASE MergeNode(l)
  <2> DEFINE t == task'[l]
  <2>1. vertices' = vertices /\ edges' = edges /\ Open(l) /\ More(l)
    BY <1>3 DEF MergeNode
  <2>2. /\ t.pc = task[l].pc /\ t.run = task[l].run /\ t.load = task[l].load
        /\ t.vs = task[l].vs \cup MergedVertices(l, Item(l)) /\ t.es = task[l].es
        /\ t.next = task[l].next + 1
        /\ t.created = task[l].created + 1 /\ t.dropped = task[l].dropped
    BY <1>3, AfterMergeNode DEF Counts
  <2>3. \A v \in MergedVertices(l, Item(l)) : v.by = Stamp(l)
    BY DEF MergedVertices, NewVertex, Stamp
  <2>4. VisibleVertices(l)' = VisibleVertices(l) \cup MergedVertices(l, Item(l))
    BY <2>1, <2>2 DEF VisibleVertices
  <2>5. VisibleEdges(l)' = VisibleEdges(l)
    BY <2>1, <2>2 DEF VisibleEdges
  <2>6. Seen(task[l].load, task[l].next, VisibleVertices(l)', VisibleEdges(l)')
    <3>1. \E v \in VisibleVertices(l)' : Matches(v, task[l].load.label, Item(l))
      <4>1. CASE \E v \in VisibleVertices(l) : Matches(v, task[l].load.label, Item(l))
        BY <2>4, <4>1
      <4>2. CASE ~ \E v \in VisibleVertices(l) : Matches(v, task[l].load.label, Item(l))
        <5>1. NewVertex(l, Item(l)) \in MergedVertices(l, Item(l))
          BY <4>2 DEF MergedVertices
        <5>2. Matches(NewVertex(l, Item(l)), task[l].load.label, Item(l))
          BY DEF NewVertex, Matches
        <5> QED BY <2>4, <5>1, <5>2
      <4> QED BY <4>1, <4>2
    <3> QED BY <1>3, <3>1 DEF MergeNode, Seen, Matches, Item
  <2>7. Counted(t, task[l].next, VisibleVertices(l)', VisibleEdges(l)')
    BY <2>1, <2>2, <2>4, <2>5, <2>6, OneMoreCounted
  <2>8. t.next - 1 = task[l].next
    BY <1>0, <2>2 DEF Task
  <2>9. WrittenBy(l)' = WrittenBy(l)
    BY <2>1, <2>2 DEF WrittenBy
  <2> QED BY <1>0, <2>1, <2>2, <2>3, <2>7, <2>8, <2>9 DEF LoadOK, Open, Stamp
<1>4. CASE MergeEdge(l)
  <2> DEFINE t == task'[l]
  <2>1. vertices' = vertices /\ edges' = edges /\ Open(l) /\ More(l)
    BY <1>4 DEF MergeEdge
  <2>2. /\ t.pc = task[l].pc /\ t.run = task[l].run /\ t.load = task[l].load
        /\ t.es = task[l].es \cup MergedEdges(l, Item(l)) /\ t.vs = task[l].vs
        /\ t.next = task[l].next + 1
        /\ t.created = task[l].created + 1 /\ t.dropped = task[l].dropped
    BY <1>4, AfterMergeEdge DEF Counts
  <2>3. \A x \in MergedEdges(l, Item(l)) : x.by = Stamp(l)
    BY DEF MergedEdges, NewEdge, Stamp
  <2>4. VisibleEdges(l)' = VisibleEdges(l) \cup MergedEdges(l, Item(l))
    BY <2>1, <2>2 DEF VisibleEdges
  <2>5. VisibleVertices(l)' = VisibleVertices(l)
    BY <2>1, <2>2 DEF VisibleVertices
  <2>6. Seen(task[l].load, task[l].next, VisibleVertices(l)', VisibleEdges(l)')
    <3>1. PICK p \in Endpoints(l, Item(l)) : TRUE
      BY <1>4 DEF MergeEdge
    <3>2. p[1].id = Item(l).from /\ p[2].id = Item(l).to
      BY DEF Endpoints
    <3>3. \E x \in VisibleEdges(l)' : MatchesEdge(x, task[l].load.label, Item(l), p[1], p[2])
      <4>1. CASE \E x \in VisibleEdges(l) :
                     MatchesEdge(x, task[l].load.label, Item(l), p[1], p[2])
        BY <2>4, <4>1
      <4>2. CASE ~ \E x \in VisibleEdges(l) :
                     MatchesEdge(x, task[l].load.label, Item(l), p[1], p[2])
        <5>1. NewEdge(l, Item(l), p[1], p[2]) \in MergedEdges(l, Item(l))
          BY <4>2 DEF MergedEdges
        <5>2. MatchesEdge(NewEdge(l, Item(l), p[1], p[2]), task[l].load.label, Item(l), p[1], p[2])
          BY DEF NewEdge, MatchesEdge
        <5> QED BY <2>4, <5>1, <5>2
      <4> QED BY <4>1, <4>2
    <3> QED BY <1>4, <3>2, <3>3 DEF MergeEdge, Seen, MatchesEdge, Item
  <2>7. Counted(t, task[l].next, VisibleVertices(l)', VisibleEdges(l)')
    BY <2>1, <2>2, <2>4, <2>5, <2>6, OneMoreCounted
  <2>8. t.next - 1 = task[l].next
    BY <1>0, <2>2 DEF Task
  <2>9. WrittenBy(l)' = WrittenBy(l)
    BY <2>1, <2>2 DEF WrittenBy
  <2> QED BY <1>0, <2>1, <2>2, <2>3, <2>7, <2>8, <2>9 DEF LoadOK, Open, Stamp
<1>5. CASE DropEdge(l)
  <2> DEFINE t == task'[l]
  <2>1. vertices' = vertices /\ edges' = edges /\ Open(l) /\ More(l)
    BY <1>5 DEF DropEdge
  <2>2. /\ t.pc = task[l].pc /\ t.run = task[l].run /\ t.load = task[l].load
        /\ t.es = task[l].es /\ t.vs = task[l].vs /\ t.next = task[l].next + 1
        /\ t.created = task[l].created /\ t.dropped = task[l].dropped + 1
    BY <1>5, AfterDropEdge DEF Counts
  <2>3. VisibleVertices(l)' = VisibleVertices(l) /\ VisibleEdges(l)' = VisibleEdges(l)
    BY <2>1, <2>2 DEF VisibleVertices, VisibleEdges
  <2>4. Counted(t, task[l].next, VisibleVertices(l)', VisibleEdges(l)')
    BY <2>1, <2>2, <2>3, OneMoreCounted
  <2>5. t.next - 1 = task[l].next
    BY <1>0, <2>2 DEF Task
  <2>6. WrittenBy(l)' = WrittenBy(l)
    BY <2>1, <2>2 DEF WrittenBy
  <2> QED BY <1>0, <2>1, <2>2, <2>4, <2>5, <2>6 DEF LoadOK, Open, Stamp
<1>6. CASE Commit(l)
  <2>1. PICK pc \in {"done", "failed"} : task' = [task EXCEPT ![l] = Closed(l, pc)]
    BY <1>6 DEF Commit
  <2>2. /\ task'[l].pc = pc /\ task'[l].vs = {} /\ task'[l].es = {}
        /\ task'[l].load = task[l].load /\ task'[l].run = task[l].run
        /\ task'[l].created = task[l].created /\ task'[l].dropped = task[l].dropped
    BY <2>1, AfterClosed
  <2>3. vertices' = VisibleVertices(l) /\ edges' = VisibleEdges(l) /\ Open(l) /\ ~More(l)
    BY <1>6 DEF Commit, VisibleVertices, VisibleEdges
  <2>4. task[l].next - 1 = Len(task[l].load.items)
    BY <1>0, <2>3, ItemsAreSequences DEF TypeOK, More, Task
  <2>5. Counted(task[l], Len(task[l].load.items), vertices', edges')
    BY <1>0, <2>3, <2>4 DEF LoadOK
  <2>6. Finished(l)'
    BY <2>2, <2>5 DEF Finished, Counted
  <2> QED BY <2>2, <2>6 DEF LoadOK, Open
<1>7. CASE RejectEdge(l)
  <2>1. /\ task'[l].pc = "failed" /\ task'[l].vs = {} /\ task'[l].es = {}
        /\ task'[l].load = task[l].load
    BY <1>7, AfterRejectEdge
  <2>2. task[l].load.strict
    BY <1>7 DEF RejectEdge
  <2> QED BY <2>1, <2>2 DEF LoadOK, Open
<1>8. CASE Abort(l)
  <2>1. /\ task'[l].pc = "failed" /\ task'[l].vs = {} /\ task'[l].es = {}
        /\ task'[l].load = task[l].load /\ task'[l].run = task[l].run
        /\ vertices' = vertices /\ edges' = edges
    BY <1>8, AfterClosed DEF Abort
  <2>2. WrittenBy(l)' = WrittenBy(l) /\ WrittenBy(l) = {}
    BY <1>0, <1>8, <2>1 DEF WrittenBy, LoadOK, Abort
  <2> QED BY <2>1, <2>2 DEF LoadOK, Open
<1> QED BY <1>1, <1>2, <1>3, <1>4, <1>5, <1>6, <1>7, <1>8 DEF LoaderStep

\* The accounts hold from the start and for ever.
LEMMA LoadsAccounted == Spec => []LoadInv
<1>1. Init => LoadInv
  <2> SUFFICES ASSUME Init PROVE LoadInv
    OBVIOUS
  <2>1. \A l \in Loaders : task[l].vs = {} /\ task[l].es = {} /\ task[l].pc = "idle"
    BY DEF Init, Fresh
  <2>2. vertices = {} /\ edges = {}
    BY DEF Init
  <2>3. \A l \in Loaders : LoadOK(l)
    BY <2>1 DEF LoadOK, Open
  <2> QED BY <2>2, <2>3 DEF LoadInv, Stamped
<1>2. TypeOK /\ LoadInv /\ [Next]_vars => LoadInv'
  <2> SUFFICES ASSUME TypeOK, LoadInv, [Next]_vars PROVE LoadInv'
    OBVIOUS
  <2>1. CASE UNCHANGED vars
    <3>1. \A l \in Loaders : LoadOK(l)'
      BY <2>1 DEF vars, LoadInv, LoadOK, Open, WrittenBy, Finished, VisibleVertices, VisibleEdges,
                  Stamp
    <3> QED BY <2>1, <3>1 DEF vars, LoadInv, Stamped
  <2>2. ASSUME NEW l \in Loaders, LoaderStep(l) PROVE LoadInv'
    <3>1. StepOf(l)
      BY <2>2, StepsWriteTheirOwn
    <3>2. \A k \in Loaders \ {l} : LoadOK(k)'
      BY <3>1, OthersKeep
    <3>3. LoadOK(l)' /\ Stamped'
      BY <2>2, <3>1, LoadStep, StampsStay
    <3> QED BY <3>2, <3>3 DEF LoadInv
  <2> QED BY <2>1, <2>2 DEF Next
<1> QED BY <1>1, <1>2, TypeCorrect, PTL DEF Spec

\* A load that returned Ok has counted truly: what it reports as created is in the graph
\* and stays there, and the rest is reported as dropped.
THEOREM OkAlwaysMeansLoaded == Spec => []OkMeansLoaded
<1>1. TypeOK /\ LoadInv => OkMeansLoaded
  BY ItemsAreSequences, FinishedIsWhole DEF LoadInv, LoadOK, OkMeansLoaded
<1> QED BY <1>1, TypeCorrect, LoadsAccounted, PTL

\* A load is seen whole or not at all, whatever fails in it and around it, unless strict
\* mode has rejected an edge.
THEOREM AlwaysAllOrNothing == Spec => []AllOrNothing
<1>1. TypeOK /\ LoadInv => AllOrNothing
  BY ItemsAreSequences, FinishedIsWhole DEF LoadInv, LoadOK, AllOrNothing, Open
<1> QED BY <1>1, TypeCorrect, LoadsAccounted, PTL

=============================================================================
