----------------------------- MODULE RiskCache -----------------------------
(***************************************************************************)
(* riskScore and refreshRiskScore (src/resolvers/risk.rs of                *)
(* activable-graphql) on the graph that ingestion writes meanwhile.        *)
(*                                                                         *)
(* An assessment is kept as a property of the Principal nodes.  It stands  *)
(* here for its basis, the permissions it was computed from; the signals   *)
(* read from the rest of the graph are left out, but not their failure.    *)
(***************************************************************************)
EXTENDS PermissionEdges

CONSTANT Requests

VARIABLES
    risk,           \* the assessments kept: risk_assessment_json of each node
    request         \* the requests in progress, and the last answer of each client

riskVars == <<risk, request>>

vars == <<edgeVars, riskVars>>

Asked(kind, p, pc) ==
    [pc |-> pc, kind |-> kind, id |-> p, held |-> PermissionsOf(p), basis |-> {}]

NoRequest == [pc |-> "idle", kind |-> "none", id |-> "none", held |-> {}, basis |-> {}]

Ended(r) == request[r].pc \in {"idle", "answered"}

-----------------------------------------------------------------------------
(* Requests *)

\* held remembers the permissions at the time of the question.
AskScore(r, p) ==
    /\ Ended(r)
    /\ request' = [request EXCEPT ![r] = Asked("score", p, "cache")]
    /\ UNCHANGED <<edgeVars, risk>>

AskRefresh(r, p) ==
    /\ Ended(r)
    /\ request' = [request EXCEPT ![r] = Asked("refresh", p, "permissions")]
    /\ UNCHANGED <<edgeVars, risk>>

\* read_risk_assessment returns the property of the first row, whichever node that is;
\* nothing asks how old it is.
ReadCache(r) ==
    /\ request[r].pc = "cache"
    /\ \E c \in risk :
          /\ c.vertex.id = request[r].id
          /\ request' = [request EXCEPT ![r] = [@ EXCEPT !.pc = "answered", !.basis = c.basis]]
    /\ UNCHANGED <<edgeVars, risk>>

\* No node, or the first has no assessment.
MissCache(r) ==
    /\ request[r].pc = "cache"
    /\ \/ ~ \E v \in vertices : v.id = request[r].id
       \/ \E v \in vertices : v.id = request[r].id /\ ~ \E c \in risk : c.vertex = v
    /\ request' = [request EXCEPT ![r].pc = "permissions"]
    /\ UNCHANGED <<edgeVars, risk>>

ReadPermissions(r) ==
    /\ request[r].pc = "permissions"
    /\ PermissionsOf(request[r].id) # {}
    /\ request' = [request EXCEPT ![r] =
                      [@ EXCEPT !.pc = "score", !.basis = PermissionsOf(request[r].id)]]
    /\ UNCHANGED <<edgeVars, risk>>

\* An error: principal not found or without permissions.
FindNoPermissions(r) ==
    /\ request[r].pc = "permissions"
    /\ PermissionsOf(request[r].id) = {}
    /\ request' = [request EXCEPT ![r] = NoRequest]
    /\ UNCHANGED <<edgeVars, risk>>

\* Mutant: the assessment is kept by all principals.
KeptByAll(p, basis) == [vertex : vertices, basis : {basis}]

\* MATCH (n:Principal {id}) SET n.risk_assessment_json: on every node of the principal.
Kept(p, basis) ==
    {c \in risk : c.vertex.id # p} \cup [vertex : {v \in vertices : v.id = p}, basis : {basis}]

\* The score is computed, kept and returned.
KeepAndAnswer(r) ==
    /\ request[r].pc = "score"
    /\ risk' = Kept(request[r].id, request[r].basis)
    /\ request' = [request EXCEPT ![r].pc = "answered"]
    /\ UNCHANGED edgeVars

\* A score that cannot be kept is returned all the same.
AnswerOnly(r) ==
    /\ Failures
    /\ request[r].pc = "score"
    /\ request' = [request EXCEPT ![r].pc = "answered"]
    /\ UNCHANGED <<edgeVars, risk>>

\* The cache, the permissions or a signal cannot be read.
RequestFails(r) ==
    /\ Failures
    /\ ~Ended(r)
    /\ request' = [request EXCEPT ![r] = NoRequest]
    /\ UNCHANGED <<edgeVars, risk>>

-----------------------------------------------------------------------------
(* Specification *)

Init ==
    /\ EdgeInit
    /\ risk = {}
    /\ request = [r \in Requests |-> NoRequest]

RequestStep(r) ==
    \/ \E p \in Principals : AskScore(r, p) \/ AskRefresh(r, p)
    \/ ReadCache(r) \/ MissCache(r) \/ ReadPermissions(r) \/ FindNoPermissions(r)
    \/ KeepAndAnswer(r) \/ AnswerOnly(r) \/ RequestFails(r)

Next ==
    \/ EdgeNext /\ UNCHANGED riskVars
    \/ \E r \in Requests : RequestStep(r)

Spec == Init /\ [][Next]_vars

-----------------------------------------------------------------------------
(* Properties *)

Assessment == [vertex : Vertex, basis : SUBSET Permissions]

Request == [pc : {"idle", "cache", "permissions", "score", "answered"},
            kind : {"none", "score", "refresh"},
            id : Principals \cup {"none"},
            held : SUBSET Permissions,
            basis : SUBSET Permissions]

\* The graph, the assessments and the requests have their types; assessments belong to
\* nodes, one to each.
TypeOK ==
    /\ EdgeTypeOK
    /\ risk \subseteq Assessment
    /\ \A c \in risk : c.vertex \in vertices
    /\ \A c, d \in risk : c.vertex = d.vertex => c = d
    /\ request \in [Requests -> Request]
    /\ \A r \in Requests : request[r].pc # "idle" => request[r].id \in Principals

\* An assessment that is kept or returned never rests on a permission that its principal
\* does not have in the graph, though it was computed while jobs wrote edges and other
\* requests wrote assessments.
AssessmentsHold ==
    /\ \A c \in risk : c.basis \subseteq PermissionsOf(c.vertex.id) /\ c.basis # {}
    /\ \A r \in Requests : request[r].pc = "answered" =>
          request[r].basis \subseteq PermissionsOf(request[r].id) /\ request[r].basis # {}

\* "Always computes fresh regardless of cache state": a refreshed score covers whatever
\* permission the principal had when it was asked for.
RefreshFresh ==
    \A r \in Requests : request[r].kind = "refresh" /\ request[r].pc = "answered" =>
        request[r].held \subseteq request[r].basis

\* "If stale or missing, compute fresh score and return": so does any score.
ScoreFresh ==
    \A r \in Requests : request[r].pc = "answered" => request[r].held \subseteq request[r].basis

=============================================================================
