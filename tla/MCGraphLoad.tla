----------------------------- MODULE MCGraphLoad -----------------------------
(***************************************************************************)
(* The loaders of one ingest job for TLC: two fetch tasks and an enricher  *)
(* or rule that loads edges.                                               *)
(***************************************************************************)
EXTENDS GraphLoad

CONSTANTS principals, buckets, relate,      \* loaders
          Principal, Resource, CanAccess,   \* labels
          alice, bob, bucket, ghost,        \* ids; ghost is never loaded
          named, stubbed,                   \* properties
          read, write                       \* identifying keys

Load(kind, label, items, strict) ==
    [kind |-> kind, label |-> label, items |-> items, strict |-> strict]

Node(id, attrs) == [id |-> id, attrs |-> attrs]

Rel(from, to, key) == [from |-> from, to |-> to, key |-> key]

Grants(strict) ==
    Load("edges", CanAccess,
         <<Rel(alice, bucket, read), Rel(alice, ghost, read), Rel(alice, bucket, write)>>, strict)

\* A page of principals, one of buckets that names a bucket twice, and an empty one.
Principals == Load("nodes", Principal, <<Node(alice, {named}), Node(bob, {named})>>, FALSE)

Buckets == Load("nodes", Resource, <<Node(bucket, {}), Node(bucket, {})>>, FALSE)

NoBuckets == Load("nodes", Resource, <<>>, FALSE)

\* The fetch tasks of one job share no node.
OneJob ==
    [l \in {principals, buckets, relate} |->
        IF l = principals THEN {Principals}
        ELSE IF l = buckets THEN {Buckets, NoBuckets}
        ELSE {Grants(FALSE), Grants(TRUE)}]

\* Before its edges the IAM enricher loads a stub for every principal that a trust policy names.
Stubs == Load("nodes", Principal, <<Node(alice, {stubbed})>>, FALSE)

StubJob ==
    [l \in {principals, buckets, relate} |->
        IF l = principals THEN {Principals}
        ELSE IF l = buckets THEN {Buckets}
        ELSE {Stubs, Grants(FALSE)}]

=============================================================================
