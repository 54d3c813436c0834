--------------------------- MODULE MCIngestTrigger ---------------------------
(* Two rows for account A and one for B.  j1 and j3 are what trigger_ingest  *)
(* enqueues; j2 is enqueued by another client, with a better priority and    *)
(* fewer attempts.                                                           *)
EXTENDS IngestTrigger

CONSTANTS j1, j2, j3

MCJobType == [j \in Jobs |-> IngestType]
MCDedupKey == [j \in Jobs |-> IF j = j3 THEN "B" ELSE "A"]
MCPriority == [j \in Jobs |-> IF j = j2 THEN 0 ELSE 1]
MCMaxAttempts == [j \in Jobs |-> IF j = j2 THEN 0 ELSE 3]

\* One account, both, none, and one that has a malformed id behind a good one.
MCLists == {<<"A">>, <<"A", "B">>, <<>>, <<"B", "12">>}
MCDefaults == <<"B">>

=============================================================================
