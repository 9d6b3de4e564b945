----------------------------- MODULE MCSources -----------------------------
(* Instances of Sources for TLC. *)
EXTENDS Sources

Q(op, arg) == [op |-> op, arg |-> arg]
Workload(begun, max, requests, n, outcomes, f) ==
    [begun |-> begun, max |-> max, requests |-> requests, crawls |-> n, outcomes |-> outcomes, faults |-> f]
MCHandlers == 1..2
MCWorkloads ==
    {\* A source is created or discovered, verified, approved or rejected, and discovered again.
     Workload(None, 4, {Q("create", TRUE), Q("create", FALSE), Q("verify", None), Q("approve", None),
                        Q("reject", None), Q("upsert", "pending")}, 0, {}, 1),
     \* Crawls fail while a seeded source is stopped, deleted or verified again.
     Workload("active", 1, {Q("stop", None), Q("delete", None)}, 3, {"fail"}, 0),
     Workload("active", 2, {Q("verify", None), Q("approve", None)}, 3, {"fail"}, 0),
     \* Crawls of a source that is seeded and discovered again.
     Workload(None, 3, {Q("upsert", "active"), Q("upsert", "pending"), Q("verify", None)}, 2, {"ok", "fail"}, 0),
     \* The operator's switches against the schedule.
     Workload("active", 2, {Q("pause", None), Q("resume", None), Q("disable", None), Q("start", None),
                            Q("interval", 24), Q("auto", None), Q("upsert", "paused")}, 0, {}, 1),
     \* What a crawl may come to, with a fault.
     Workload("active", 1, {Q("interval", 24)}, 1, {"ok", "fail", "tune", "paused"}, 1)}
=============================================================================
