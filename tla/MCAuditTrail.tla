---------------------------- MODULE MCAuditTrail ----------------------------
(***************************************************************************)
(* Events around a full hour, at 0:58:00, 0:59:00, 0:59:59 and 1:00:05,    *)
(* and later, at 1:02:00 and 2:01:40.                                      *)
(***************************************************************************)
EXTENDS AuditTrail

Event(name, source, time, error) ==
    [fields |-> Required, name |-> name, source |-> source, time |-> time, error |-> error,
     principal |-> "alice", account |-> "1", resources |-> {}]

Create(time) == Event("CreatePolicy", "iam.amazonaws.com", time, "none")

Assume(time, error) ==
    [Event("AssumeRole", "sts.amazonaws.com", time, error) EXCEPT !.resources = {"no ARN", "2"}]

Single(record) == [form |-> "array", records |-> <<record>>]

MCBatches ==
    {Single(Create(time)) : time \in {3480, 3540, 3605, 7300}}
    \cup {Single(Assume(3540, "AccessDenied")), Single(Assume(3599, "none")), Single(Assume(3720, "none"))}
    \cup {[form |-> "Records",
           records |-> <<[Create(3540) EXCEPT !.principal = "bob"],
                         [Create(3540) EXCEPT !.fields = Required \ {"eventTime"}],
                         [Create(3480) EXCEPT !.error = "AccessDenied"]>>],
          [form |-> "other", records |-> << >>]}
MCRecords == UNION {{b.records[i] : i \in DOMAIN b.records} : b \in MCBatches}
=============================================================================
